---- MODULE Spec2Model ----
(***************************************************************************)
(* Air-quality scoring core of AIrChat: the EPA AQI calculation and the    *)
(* dominant pollutant (svc/aqi_epa.py), the NowCast smoother               *)
(* (svc/nowcast.py) and the station selection (svc/station_selector.py);   *)
(* and the chat agent's per-session memory (svc/ai_agent.py).              *)
(*                                                                         *)
(* Numbers.  The code works on Python floats, and so does the model: the   *)
(* arithmetic of calculate_aqi and calculate_nowcast_pm25 is binary64      *)
(* arithmetic, every operation rounded as the hardware rounds it, and      *)
(* round() rounds the float it is given (so round(0.05, 1) is 0.1, because *)
(* the float of 0.05 lies above 0.05).  Arguments and results are written  *)
(* as decimal numbers:                                                     *)
(*   - a concentration is an integer number of ten-thousandths of the      *)
(*     pollutant's unit (12.1 ug/m3 is 121000, 0.054 ppm is 540), so that  *)
(*     values lying between two rows of a table can be told apart; it      *)
(*     stands for the float nearest to that decimal number;                *)
(*   - an hourly reading and a NowCast result are integer numbers of       *)
(*     tenths of ug/m3 (11.4 is 114), standing for the nearest float.      *)
(*                                                                         *)
(* Strings that the code transforms (pollutant identifiers: lower(),       *)
(* upper()) are sequences of ASCII codes; strings it only copies           *)
(* (category, color) are TLA+ strings.                                     *)
(***************************************************************************)
EXTENDS Integers, Sequences, FiniteSets, TLC

VARIABLES pc, args, ret, agents, agent_instance, frame

\* pc, args, ret: the position, the arguments and the result of the call in
\* progress (the arguments and the result of each chat, where several chats
\* are in progress).
\* agents: the AIrChatAgent objects constructed so far, agent_instance: the
\* module global _agent_instance (0 is None, else a place in agents),
\* frame: the position and the local variables of each chat in progress.
agentVars == <<agents, agent_instance, frame>>

vars == <<pc, args, ret, agents, agent_instance, frame>>

\* No agent has been constructed and no chat is in progress.
NoAgent == agents = <<>> /\ agent_instance = 0 /\ frame = <<>>

(***************************************************************************)
(* Arithmetic helpers                                                      *)
(***************************************************************************)

\* str.lower() and str.upper() on ASCII code sequences.
lower(s) == [i \in 1..Len(s) |-> IF s[i] >= 65 /\ s[i] <= 90 THEN s[i] + 32 ELSE s[i]]

upper(s) == [i \in 1..Len(s) |-> IF s[i] >= 97 /\ s[i] <= 122 THEN s[i] - 32 ELSE s[i]]

(***************************************************************************)
(* Python floats (IEEE 754 binary64, round to nearest, ties to even)       *)
(*                                                                         *)
(* A natural number of any size is a sequence of limbs in base 2^15, the   *)
(* least significant first, without leading zero limb (0 is <<>>).  A      *)
(* float is [s, m, e] and stands for s * m * 2^e exactly: s is 1 or -1, m  *)
(* a natural number below 2^53 that is odd or zero, e an integer.  Each    *)
(* operation computes the exact result and rounds it to 53 bits, as the    *)
(* hardware does.  The values of the program stay far from overflow and    *)
(* from the subnormal range.                                               *)
(*                                                                         *)
(* An intermediate value is bound as the element of a one-element set,     *)
(* CHOOSE val \in {f(v) : v \in {e}} : TRUE, so that e is computed once    *)
(* however often f uses v.  A loop over a range is computed by halves, the *)
(* second half from the bound result of the first, so that the depth of    *)
(* the computation is the logarithm of the length of the range.            *)
(***************************************************************************)

Base == 2^15

\* a without its leading zero limbs
Trim(a0) ==
    CHOOSE val \in {SubSeq(a, 1, CHOOSE n \in 0..Len(a) :
                                    (n = 0 \/ a[n] # 0) /\ \A j \in (n + 1)..Len(a) : a[j] = 0) :
                       a \in {a0}} : TRUE

\* The natural number n < 2^31 as limbs, and back.
BigFromInt(n) == Trim(<<n % Base, (n \div Base) % Base, n \div (Base * Base)>>)

BigToInt(a0) ==
    CHOOSE val \in {(IF Len(a) >= 1 THEN a[1] ELSE 0)
                    + (IF Len(a) >= 2 THEN a[2] * Base ELSE 0)
                    + (IF Len(a) >= 3 THEN a[3] * Base * Base ELSE 0) : a \in {a0}} : TRUE

Limb(a, i) == IF i <= Len(a) THEN a[i] ELSE 0

\* The digits lo..hi of t, integers of any sign below 2^30 in size, brought
\* into limbs after the limbs and the carry of the digits before them.
RECURSIVE CarryRange(_, _, _, _)
CarryRange(t, lo, hi, state) ==
    IF lo > hi THEN state
    ELSE IF lo = hi
    THEN [limbs |-> Append(state.limbs, (t[lo] + state.carry) % Base),
          carry |-> (t[lo] + state.carry) \div Base]
    ELSE CHOOSE val \in {CarryRange(t, (lo + hi) \div 2 + 1, hi, first) :
                            first \in {CarryRange(t, lo, (lo + hi) \div 2, state)}} : TRUE

\* The limbs and the last carry as one number
WithCarry(res0) ==
    CHOOSE val \in {Trim(res.limbs \o <<res.carry>>) : res \in {res0}} : TRUE

\* The natural number whose digits in base 2^15 are t
Normal(t0) ==
    CHOOSE val \in {WithCarry(CarryRange(t, 1, Len(t), [limbs |-> <<>>, carry |-> 0])) :
                       t \in {t0}} : TRUE

BigAdd(a0, b0) ==
    CHOOSE val \in {Normal([i \in 1..(IF Len(a) > Len(b) THEN Len(a) ELSE Len(b)) |->
                               Limb(a, i) + Limb(b, i)]) : a \in {a0}, b \in {b0}} : TRUE

\* a - b for a >= b
BigSub(a0, b0) ==
    CHOOSE val \in {Normal([i \in 1..Len(a) |-> a[i] - Limb(b, i)]) :
                       a \in {a0}, b \in {b0}} : TRUE

\* -1, 0, 1 as a < b, a = b, a > b: the highest limb that differs decides.
BigCmp(a0, b0) ==
    CHOOSE val \in {(IF Len(a) > Len(b) THEN 1
                     ELSE IF Len(a) < Len(b) THEN -1
                     ELSE IF \A i \in 1..Len(a) : a[i] = b[i] THEN 0
                     ELSE IF \E i \in 1..Len(a) :
                                a[i] > b[i] /\ \A j \in (i + 1)..Len(a) : a[j] = b[j]
                     THEN 1 ELSE -1) : a \in {a0}, b \in {b0}} : TRUE

\* a * k for 0 < k <= 2^15
BigMulSmall(a0, k0) ==
    CHOOSE val \in {Normal([i \in 1..Len(a) |-> a[i] * k]) : a \in {a0}, k \in {k0}} : TRUE

\* a times the limbs lo..hi of b at their places
RECURSIVE MulRange(_, _, _, _)
MulRange(a, b, lo, hi) ==
    IF lo = hi
    THEN IF b[lo] = 0 THEN <<>> ELSE [i \in 1..(lo - 1) |-> 0] \o BigMulSmall(a, b[lo])
    ELSE BigAdd(MulRange(a, b, lo, (lo + hi) \div 2), MulRange(a, b, (lo + hi) \div 2 + 1, hi))

BigMul(a0, b0) ==
    CHOOSE val \in {(IF a = <<>> \/ b = <<>> THEN <<>> ELSE MulRange(a, b, 1, Len(b))) :
                       a \in {a0}, b \in {b0}} : TRUE

\* a \div 2^bits and a % 2^bits for 0 <= bits < 15
ShrBits(a0, bits0) ==
    CHOOSE val \in {[q |-> Trim([i \in 1..Len(a) |->
                                    (a[i] \div 2^bits)
                                    + (Limb(a, i + 1) % 2^bits) * 2^(15 - bits)]),
                     r |-> Limb(a, 1) % 2^bits] : a \in {a0}, bits \in {bits0}} : TRUE

\* The number of bits of n < 2^15, and of a
SmallBitLen(n) == CHOOSE k \in 0..15 : n < 2^k /\ (k = 0 \/ n >= 2^(k - 1))

BitLen(a) == IF a = <<>> THEN 0 ELSE 15 * (Len(a) - 1) + SmallBitLen(a[Len(a)])

\* a * 2^k
Shl(a0, k0) ==
    CHOOSE val \in {(IF a = <<>> THEN a
                     ELSE [i \in 1..(k \div 15) |-> 0] \o BigMulSmall(a, 2^(k % 15))) :
                       a \in {a0}, k \in {k0}} : TRUE

\* a \div 2^(15 * limbs + bits), and whether bits were lost
ShrLimbs(a, limbs, bits) ==
    CHOOSE val \in {[q |-> res.q,
                     lost |-> res.r # 0 \/ \E i \in 1..Len(a) : i <= limbs /\ a[i] # 0] :
                       res \in {ShrBits(IF limbs >= Len(a) THEN <<>>
                                        ELSE SubSeq(a, limbs + 1, Len(a)), bits)}} : TRUE

\* a \div 2^k, and whether bits were lost
Shr(a0, k0) ==
    CHOOSE val \in {ShrLimbs(a, k \div 15, k % 15) : a \in {a0}, k \in {k0}} : TRUE

\* The quotient t.q with its last bit rounded away: a tie (the last bit set
\* and no bit lost before) goes to the even number.
RoundLastBit(t0) ==
    CHOOSE val \in {(IF Limb(t.q, 1) % 2 = 1
                        /\ (t.lost \/ Limb(ShrBits(t.q, 1).q, 1) % 2 = 1)
                     THEN BigAdd(ShrBits(t.q, 1).q, <<1>>)
                     ELSE ShrBits(t.q, 1).q) : t \in {t0}} : TRUE

\* a / 2^k rounded to the nearest natural number, a tie to the even one
ShrNearestEven(a0, k0) ==
    CHOOSE val \in {(IF k = 0 THEN a ELSE RoundLastBit(Shr(a, k - 1))) :
                       a \in {a0}, k \in {k0}} : TRUE

\* The number of trailing zero bits of 0 < n < 2^15
TrailingZeros(n) == CHOOSE z \in 0..14 : n % 2^z = 0 /\ (n \div 2^z) % 2 = 1

\* The float s * m * 2^e for m < 2^53, with the trailing zero bits of m
\* moved to the exponent.
RECURSIVE Float(_, _, _)
Float(s, m0, e0) ==
    CHOOSE val \in {(IF m = <<>> THEN [s |-> 1, m |-> <<>>, e |-> 0]
                     ELSE IF m[1] = 0 THEN Float(s, Tail(m), e + 15)
                     ELSE IF m[1] % 2 = 1 THEN [s |-> s, m |-> m, e |-> e]
                     ELSE [s |-> s, m |-> ShrBits(m, TrailingZeros(m[1])).q,
                           e |-> e + TrailingZeros(m[1])]) :
                       m \in {m0}, e \in {e0}} : TRUE

\* The float nearest to s * m * 2^e, for any natural number m
Round53(s, m0, e0) ==
    CHOOSE val \in {(IF BitLen(m) <= 53 THEN Float(s, m, e)
                     ELSE Float(s, ShrNearestEven(m, BitLen(m) - 53), e + BitLen(m) - 53)) :
                       m \in {m0}, e \in {e0}} : TRUE

\* The last steps of a quotient limb: q was estimated from below.  The
\* limb goes above the limbs qs of the quotient.
RECURSIVE Correct(_, _, _, _)
Correct(rem0, d, q0, qs) ==
    CHOOSE val \in {(IF BigCmp(rem, d) >= 0 THEN Correct(BigSub(rem, d), d, q + 1, qs)
                     ELSE [q |-> Append(qs, q), r |-> rem]) :
                       rem \in {rem0}, q \in {q0}} : TRUE

\* The estimate of the quotient limb of cur < d * 2^15 by d, whose highest
\* limb is at least 2^14, from the two highest limbs of cur: it is never
\* above the limb.
Estimate(cur, d) ==
    (Limb(cur, Len(d) + 1) * Base + Limb(cur, Len(d))) \div (d[Len(d)] + 1)

\* One step of the long division by d: the next limb of a is taken under
\* the remainder, and the quotient limb is appended to the quotient (its
\* limbs are kept the highest first).
DivLimb(a, d, i, state) ==
    CHOOSE val \in {(IF Estimate(cur, d) = 0 THEN Correct(cur, d, 0, state.q)
                     ELSE Correct(BigSub(cur, BigMulSmall(d, Estimate(cur, d))), d,
                                  Estimate(cur, d), state.q)) :
                       cur \in {Trim(<<a[i]>> \o state.r)}} : TRUE

\* Long division of the limbs hi down to lo of a by d, after the quotient
\* and the remainder of the limbs above them.
RECURSIVE DivLimbs(_, _, _, _, _)
DivLimbs(a, d, hi, lo, state) ==
    IF hi < lo THEN state
    ELSE IF hi = lo THEN DivLimb(a, d, hi, state)
    ELSE CHOOSE val \in {DivLimbs(a, d, (hi + lo) \div 2, lo, first) :
                            first \in {DivLimbs(a, d, hi, (hi + lo) \div 2 + 1, state)}} : TRUE

\* The quotient with its limbs the lowest first
Reversed(res0) ==
    CHOOSE val \in {[q |-> Trim([i \in 1..Len(res.q) |-> res.q[Len(res.q) + 1 - i]]),
                     r |-> res.r] : res \in {res0}} : TRUE

\* Quotient and remainder of a by d # 0, the remainder as the multiple of
\* itself that the scaling of d to a full highest limb leaves.
BigDivMod(a0, d0) ==
    CHOOSE val \in {Reversed(DivLimbs(a, d, Len(a), 1, [q |-> <<>>, r |-> <<>>])) :
                       a \in {Shl(a0, 15 - SmallBitLen(d0[Len(d0)]))},
                       d \in {Shl(d0, 15 - SmallBitLen(d0[Len(d0)]))}} : TRUE

\* q with a last bit that records whether the division left a remainder
WithSticky(res0) ==
    CHOOSE val \in {(IF res.r = <<>> THEN BigMulSmall(res.q, 2)
                     ELSE BigAdd(BigMulSmall(res.q, 2), <<1>>)) : res \in {res0}} : TRUE

\* The number of bits by which n is scaled for a quotient by d of more than
\* 55 bits
ScaleBits(n, d) ==
    IF 56 + BitLen(d) - BitLen(n) > 0 THEN 56 + BitLen(d) - BitLen(n) ELSE 0

\* The float nearest to s * (n / d) * 2^e, for natural numbers n and d # 0
RoundRatio(s, n0, d0, e) ==
    CHOOSE val \in {(IF n = <<>> THEN Float(1, <<>>, 0)
                     ELSE Round53(s, WithSticky(BigDivMod(Shl(n, ScaleBits(n, d)), d)),
                                  e - ScaleBits(n, d) - 1)) :
                       n \in {n0}, d \in {d0}} : TRUE

Abs(n) == IF n < 0 THEN -n ELSE n

Sign(n) == IF n < 0 THEN -1 ELSE 1

\* float(n) for an integer n, and the float of the decimal literal n / d
FromInt(n) == Round53(Sign(n), BigFromInt(Abs(n)), 0)

FromDecimal(n, d) == RoundRatio(Sign(n), BigFromInt(Abs(n)), BigFromInt(d), 0)

FNeg(x0) ==
    CHOOSE val \in {(IF x.m = <<>> THEN x ELSE [x EXCEPT !.s = -x.s]) : x \in {x0}} : TRUE

\* The lesser of two integers
Lesser(a, b) == IF a < b THEN a ELSE b

\* -1, 0, 1 as x < y, x = y, x > y
FCmp(x0, y0) ==
    CHOOSE val \in {(IF x.m = <<>> THEN (IF y.m = <<>> THEN 0 ELSE -y.s)
                     ELSE IF y.m = <<>> THEN x.s
                     ELSE IF x.s # y.s THEN x.s
                     ELSE x.s * BigCmp(Shl(x.m, x.e - Lesser(x.e, y.e)),
                                       Shl(y.m, y.e - Lesser(x.e, y.e)))) :
                       x \in {x0}, y \in {y0}} : TRUE

\* s * a * 2^e + t * b * 2^e for natural numbers a and b, exactly, rounded
AddAligned(s, a0, t, b0, e) ==
    CHOOSE val \in {(IF s = t THEN Round53(s, BigAdd(a, b), e)
                     ELSE IF BigCmp(a, b) = 0 THEN Float(1, <<>>, 0)
                     ELSE IF BigCmp(a, b) > 0 THEN Round53(s, BigSub(a, b), e)
                     ELSE Round53(t, BigSub(b, a), e)) : a \in {a0}, b \in {b0}} : TRUE

FAdd(x0, y0) ==
    CHOOSE val \in {(IF x.m = <<>> THEN y
                     ELSE IF y.m = <<>> THEN x
                     ELSE AddAligned(x.s, Shl(x.m, x.e - Lesser(x.e, y.e)),
                                     y.s, Shl(y.m, y.e - Lesser(x.e, y.e)),
                                     Lesser(x.e, y.e))) :
                       x \in {x0}, y \in {y0}} : TRUE

FSub(x, y) == FAdd(x, FNeg(y))

FMul(x0, y0) ==
    CHOOSE val \in {Round53(x.s * y.s, BigMul(x.m, y.m), x.e + y.e) :
                       x \in {x0}, y \in {y0}} : TRUE

FDiv(x0, y0) ==
    CHOOSE val \in {RoundRatio(x.s * y.s, x.m, y.m, x.e - y.e) :
                       x \in {x0}, y \in {y0}} : TRUE

\* x * y + z rounded once, the fused multiply-add of the processor
FFma(x0, y0, z0) ==
    CHOOSE val \in {(IF x.m = <<>> \/ y.m = <<>> THEN z
                     ELSE IF z.m = <<>> THEN Round53(x.s * y.s, BigMul(x.m, y.m), x.e + y.e)
                     ELSE AddAligned(x.s * y.s,
                                     Shl(BigMul(x.m, y.m), x.e + y.e - Lesser(x.e + y.e, z.e)),
                                     z.s, Shl(z.m, z.e - Lesser(x.e + y.e, z.e)),
                                     Lesser(x.e + y.e, z.e))) :
                       x \in {x0}, y \in {y0}, z \in {z0}} : TRUE

(***************************************************************************)
(* w ** i is float.__pow__, which answers 1.0 for i = 0 and for w = 1.0    *)
(* and calls pow of the C library otherwise.  That pow (glibc 2.36, the    *)
(* variant for processors with fused multiply-add) is not correctly        *)
(* rounded: it computes log(x) as a sum hi + lo from a table of 128        *)
(* intervals and a polynomial, and exp(y * log(x)) from a table of 128     *)
(* powers of two and a polynomial, and its result is the float nearest to  *)
(* the power or a neighbour of it.  The operations below are those of the  *)
(* library in their order, with its constants and tables and under its     *)
(* names, for x > 0 and y with 2^-54 <= |y * log(x)| < 512, which covers   *)
(* every weight and every exponent of NowCast.                             *)
(***************************************************************************)

\* The data of log: ln2hi + ln2lo is near log(2), poly holds the
\* coefficients A[0] to A[6] of the polynomial, and for the interval i
\* (from 0) of tab, invc is near the inverse of its centre c and
\* logc + logctail is near log(c).
pow_log_data ==
    [ln2hi |-> [s |-> 1, m |-> <<24391, 4287, 2839>>, e |-> -42],
     ln2lo |-> [s |-> 1, m |-> <<30323, 29304, 15573, 15>>, e |-> -93],
     poly |->
       <<[s |-> -1, m |-> <<1>>, e |-> -1],
         [s |-> -1, m |-> <<10923, 21845, 10922, 5>>, e |-> -48],
         [s |-> 1, m |-> <<3, 0, 0, 64>>, e |-> -52],
         [s |-> 1, m |-> <<10919, 6489, 13107, 102>>, e |-> -52],
         [s |-> -1, m |-> <<21053, 21801, 10922, 85>>, e |-> -52],
         [s |-> -1, m |-> <<17897, 13968, 9582, 146>>, e |-> -52],
         [s |-> 1, m |-> <<16323, 5708, 174, 128>>, e |-> -52]>>,
     tab |->
       <<[invc |-> [s |-> 1, m |-> <<181>>, e |-> -7],
          logc |-> [s |-> -1, m |-> <<22329, 8380, 2838>>, e |-> -43],
          logctail |-> [s |-> 1, m |-> <<28333, 4256, 21921, 1>>, e |-> -93]],
         [invc |-> [s |-> 1, m |-> <<45>>, e |-> -5],
          logc |-> [s |-> -1, m |-> <<27393, 28527, 2792>>, e |-> -43],
          logctail |-> [s |-> -1, m |-> <<1977, 3470, 5281, 7>>, e |-> -93]],
         [invc |-> [s |-> 1, m |-> <<179>>, e |-> -7],
          logc |-> [s |-> -1, m |-> <<26795, 7621, 2747>>, e |-> -43],
          logctail |-> [s |-> -1, m |-> <<20589, 11116, 2707, 155>>, e |-> -97]],
         [invc |-> [s |-> 1, m |-> <<89>>, e |-> -6],
          logc |-> [s |-> -1, m |-> <<26047, 11105, 2701>>, e |-> -43],
          logctail |-> [s |-> -1, m |-> <<26581, 15712, 5010, 180>>, e |-> -101]],
         [invc |-> [s |-> 1, m |-> <<177>>, e |-> -7],
          logc |-> [s |-> -1, m |-> <<12015, 6117, 2655>>, e |-> -43],
          logctail |-> [s |-> -1, m |-> <<18935, 6450, 877, 5>>, e |-> -94]],
         [invc |-> [s |-> 1, m |-> <<11>>, e |-> -3],
          logc |-> [s |-> -1, m |-> <<4323, 6332, 652>>, e |-> -41],
          logctail |-> [s |-> 1, m |-> <<8499, 9254, 22575, 39>>, e |-> -96]],
         [invc |-> [s |-> 1, m |-> <<175>>, e |-> -7],
          logc |-> [s |-> -1, m |-> <<20693, 3105, 2562>>, e |-> -43],
          logctail |-> [s |-> 1, m |-> <<1437, 28034, 1511, 113>>, e |-> -101]],
         [invc |-> [s |-> 1, m |-> <<87>>, e |-> -6],
          logc |-> [s |-> -1, m |-> <<11561, 4885, 2515>>, e |-> -43],
          logctail |-> [s |-> 1, m |-> <<3235, 26725, 5688, 4>>, e |-> -92]],
         [invc |-> [s |-> 1, m |-> <<173>>, e |-> -7],
          logc |-> [s |-> -1, m |-> <<13617, 8054, 154>>, e |-> -39],
          logctail |-> [s |-> 1, m |-> <<16457, 21701, 12955, 85>>, e |-> -96]],
         [invc |-> [s |-> 1, m |-> <<43>>, e |-> -5],
          logc |-> [s |-> -1, m |-> <<22281, 3627, 605>>, e |-> -41],
          logctail |-> [s |-> 1, m |-> <<25979, 9837, 15759, 22>>, e |-> -94]],
         [invc |-> [s |-> 1, m |-> <<171>>, e |-> -7],
          logc |-> [s |-> -1, m |-> <<31697, 22148, 2372>>, e |-> -43],
          logctail |-> [s |-> 1, m |-> <<12351, 28063, 10322, 174>>, e |-> -98]],
         [invc |-> [s |-> 1, m |-> <<171>>, e |-> -7],
          logc |-> [s |-> -1, m |-> <<31697, 22148, 2372>>, e |-> -43],
          logctail |-> [s |-> 1, m |-> <<12351, 28063, 10322, 174>>, e |-> -98]],
         [invc |-> [s |-> 1, m |-> <<85>>, e |-> -6],
          logc |-> [s |-> -1, m |-> <<31215, 20606, 2324>>, e |-> -43],
          logctail |-> [s |-> -1, m |-> <<27963, 10323, 13384, 89>>, e |-> -97]],
         [invc |-> [s |-> 1, m |-> <<169>>, e |-> -7],
          logc |-> [s |-> -1, m |-> <<11571, 9776, 2276>>, e |-> -43],
          logctail |-> [s |-> -1, m |-> <<21761, 13427, 12220, 63>>, e |-> -96]],
         [invc |-> [s |-> 1, m |-> <<21>>, e |-> -4],
          logc |-> [s |-> -1, m |-> <<30069, 22314, 2227>>, e |-> -43],
          logctail |-> [s |-> 1, m |-> <<10895, 18032, 18417, 15>>, e |-> -94]],
         [invc |-> [s |-> 1, m |-> <<167>>, e |-> -7],
          logc |-> [s |-> -1, m |-> <<13769, 25342, 2178>>, e |-> -43],
          logctail |-> [s |-> -1, m |-> <<11571, 32005, 20873, 90>>, e |-> -96]],
         [invc |-> [s |-> 1, m |-> <<83>>, e |-> -6],
          logc |-> [s |-> -1, m |-> <<10041, 25756, 1064>>, e |-> -42],
          logctail |-> [s |-> -1, m |-> <<391, 32500, 22492, 113>>, e |-> -98]],
         [invc |-> [s |-> 1, m |-> <<165>>, e |-> -7],
          logc |-> [s |-> -1, m |-> <<19277, 1202, 1040>>, e |-> -42],
          logctail |-> [s |-> -1, m |-> <<11647, 15848, 23266, 129>>, e |-> -100]],
         [invc |-> [s |-> 1, m |-> <<165>>, e |-> -7],
          logc |-> [s |-> -1, m |-> <<19277, 1202, 1040>>, e |-> -42],
          logctail |-> [s |-> -1, m |-> <<11647, 15848, 23266, 129>>, e |-> -100]],
         [invc |-> [s |-> 1, m |-> <<41>>, e |-> -5],
          logc |-> [s |-> -1, m |-> <<13689, 18627, 507>>, e |-> -41],
          logctail |-> [s |-> 1, m |-> <<15495, 22322, 23722, 234>>, e |-> -99]],
         [invc |-> [s |-> 1, m |-> <<163>>, e |-> -7],
          logc |-> [s |-> -1, m |-> <<24291, 2780, 990>>, e |-> -42],
          logctail |-> [s |-> 1, m |-> <<11209, 20035, 9911, 54>>, e |-> -95]],
         [invc |-> [s |-> 1, m |-> <<81>>, e |-> -6],
          logc |-> [s |-> -1, m |-> <<25263, 24813, 1929>>, e |-> -43],
          logctail |-> [s |-> -1, m |-> <<32753, 27271, 19411, 11>>, e |-> -94]],
         [invc |-> [s |-> 1, m |-> <<161>>, e |-> -7],
          logc |-> [s |-> -1, m |-> <<11583, 24843, 469>>, e |-> -41],
          logctail |-> [s |-> 1, m |-> <<26651, 30612, 27206, 141>>, e |-> -97]],
         [invc |-> [s |-> 1, m |-> <<5>>, e |-> -2],
          logc |-> [s |-> -1, m |-> <<15573, 32636, 913>>, e |-> -42],
          logctail |-> [s |-> 1, m |-> <<24845, 13391, 31055, 46>>, e |-> -95]],
         [invc |-> [s |-> 1, m |-> <<5>>, e |-> -2],
          logc |-> [s |-> -1, m |-> <<15573, 32636, 913>>, e |-> -42],
          logctail |-> [s |-> 1, m |-> <<24845, 13391, 31055, 46>>, e |-> -95]],
         [invc |-> [s |-> 1, m |-> <<159>>, e |-> -7],
          logc |-> [s |-> -1, m |-> <<17113, 20686, 1776>>, e |-> -43],
          logctail |-> [s |-> 1, m |-> <<14223, 25367, 15040, 202>>, e |-> -98]],
         [invc |-> [s |-> 1, m |-> <<79>>, e |-> -6],
          logc |-> [s |-> -1, m |-> <<14851, 7754, 431>>, e |-> -41],
          logctail |-> [s |-> 1, m |-> <<18483, 16333, 7366, 105>>, e |-> -103]],
         [invc |-> [s |-> 1, m |-> <<157>>, e |-> -7],
          logc |-> [s |-> -1, m |-> <<32299, 30595, 1672>>, e |-> -43],
          logctail |-> [s |-> -1, m |-> <<24821, 23622, 6345, 86>>, e |-> -96]],
         [invc |-> [s |-> 1, m |-> <<157>>, e |-> -7],
          logc |-> [s |-> -1, m |-> <<32299, 30595, 1672>>, e |-> -43],
          logctail |-> [s |-> -1, m |-> <<24821, 23622, 6345, 86>>, e |-> -96]],
         [invc |-> [s |-> 1, m |-> <<39>>, e |-> -5],
          logc |-> [s |-> -1, m |-> <<20293, 19283, 1620>>, e |-> -43],
          logctail |-> [s |-> -1, m |-> <<21731, 2435, 18276, 214>>, e |-> -97]],
         [invc |-> [s |-> 1, m |-> <<155>>, e |-> -7],
          logc |-> [s |-> -1, m |-> <<21005, 29708, 1567>>, e |-> -43],
          logctail |-> [s |-> 1, m |-> <<31241, 32695, 30461, 221>>, e |-> -97]],
         [invc |-> [s |-> 1, m |-> <<77>>, e |-> -6],
          logc |-> [s |-> -1, m |-> <<4231, 14480, 757>>, e |-> -42],
          logctail |-> [s |-> 1, m |-> <<26955, 7316, 28104, 27>>, e |-> -94]],
         [invc |-> [s |-> 1, m |-> <<77>>, e |-> -6],
          logc |-> [s |-> -1, m |-> <<4231, 14480, 757>>, e |-> -42],
          logctail |-> [s |-> 1, m |-> <<26955, 7316, 28104, 27>>, e |-> -94]],
         [invc |-> [s |-> 1, m |-> <<153>>, e |-> -7],
          logc |-> [s |-> -1, m |-> <<29085, 16892, 1461>>, e |-> -43],
          logctail |-> [s |-> -1, m |-> <<28979, 9138, 18645, 67>>, e |-> -97]],
         [invc |-> [s |-> 1, m |-> <<19>>, e |-> -4],
          logc |-> [s |-> -1, m |-> <<2681, 26126, 1407>>, e |-> -43],
          logctail |-> [s |-> -1, m |-> <<20537, 15904, 30990, 244>>, e |-> -98]],
         [invc |-> [s |-> 1, m |-> <<19>>, e |-> -4],
          logc |-> [s |-> -1, m |-> <<2681, 26126, 1407>>, e |-> -43],
          logctail |-> [s |-> -1, m |-> <<20537, 15904, 30990, 244>>, e |-> -98]],
         [invc |-> [s |-> 1, m |-> <<151>>, e |-> -7],
          logc |-> [s |-> -1, m |-> <<14875, 23740, 1353>>, e |-> -43],
          logctail |-> [s |-> -1, m |-> <<23439, 8206, 31278, 134>>, e |-> -97]],
         [invc |-> [s |-> 1, m |-> <<75>>, e |-> -6],
          logc |-> [s |-> -1, m |-> <<22935, 13485, 162>>, e |-> -40],
          logctail |-> [s |-> 1, m |-> <<24079, 12442, 3265, 46>>, e |-> -96]],
         [invc |-> [s |-> 1, m |-> <<75>>, e |-> -6],
          logc |-> [s |-> -1, m |-> <<22935, 13485, 162>>, e |-> -40],
          logctail |-> [s |-> 1, m |-> <<24079, 12442, 3265, 46>>, e |-> -96]],
         [invc |-> [s |-> 1, m |-> <<149>>, e |-> -7],
          logc |-> [s |-> -1, m |-> <<489, 16260, 1244>>, e |-> -43],
          logctail |-> [s |-> 1, m |-> <<10781, 19751, 28940, 69>>, e |-> -99]],
         [invc |-> [s |-> 1, m |-> <<37>>, e |-> -5],
          logc |-> [s |-> -1, m |-> <<511, 10847, 1189>>, e |-> -43],
          logctail |-> [s |-> -1, m |-> <<14465, 1500, 18072, 20>>, e |-> -94]],
         [invc |-> [s |-> 1, m |-> <<147>>, e |-> -7],
          logc |-> [s |-> -1, m |-> <<10619, 29357, 566>>, e |-> -42],
          logctail |-> [s |-> -1, m |-> <<20939, 6161, 328, 122>>, e |-> -96]],
         [invc |-> [s |-> 1, m |-> <<147>>, e |-> -7],
          logc |-> [s |-> -1, m |-> <<10619, 29357, 566>>, e |-> -42],
          logctail |-> [s |-> -1, m |-> <<20939, 6161, 328, 122>>, e |-> -96]],
         [invc |-> [s |-> 1, m |-> <<73>>, e |-> -6],
          logc |-> [s |-> -1, m |-> <<19721, 28623, 1077>>, e |-> -43],
          logctail |-> [s |-> 1, m |-> <<5885, 17524, 27030, 52>>, e |-> -97]],
         [invc |-> [s |-> 1, m |-> <<73>>, e |-> -6],
          logc |-> [s |-> -1, m |-> <<19721, 28623, 1077>>, e |-> -43],
          logctail |-> [s |-> 1, m |-> <<5885, 17524, 27030, 52>>, e |-> -97]],
         [invc |-> [s |-> 1, m |-> <<145>>, e |-> -7],
          logc |-> [s |-> -1, m |-> <<3807, 18707, 1021>>, e |-> -43],
          logctail |-> [s |-> -1, m |-> <<6649, 23715, 27304, 85>>, e |-> -96]],
         [invc |-> [s |-> 1, m |-> <<9>>, e |-> -3],
          logc |-> [s |-> -1, m |-> <<28203, 19982, 120>>, e |-> -40],
          logctail |-> [s |-> 1, m |-> <<15, 5496, 13356, 52>>, e |-> -95]],
         [invc |-> [s |-> 1, m |-> <<9>>, e |-> -3],
          logc |-> [s |-> -1, m |-> <<28203, 19982, 120>>, e |-> -40],
          logctail |-> [s |-> 1, m |-> <<15, 5496, 13356, 52>>, e |-> -95]],
         [invc |-> [s |-> 1, m |-> <<143>>, e |-> -7],
          logc |-> [s |-> -1, m |-> <<15727, 29348, 453>>, e |-> -42],
          logctail |-> [s |-> -1, m |-> <<24323, 22623, 6318, 116>>, e |-> -97]],
         [invc |-> [s |-> 1, m |-> <<71>>, e |-> -6],
          logc |-> [s |-> -1, m |-> <<21079, 9939, 850>>, e |-> -43],
          logctail |-> [s |-> 1, m |-> <<30041, 31254, 7322, 21>>, e |-> -94]],
         [invc |-> [s |-> 1, m |-> <<71>>, e |-> -6],
          logc |-> [s |-> -1, m |-> <<21079, 9939, 850>>, e |-> -43],
          logctail |-> [s |-> 1, m |-> <<30041, 31254, 7322, 21>>, e |-> -94]],
         [invc |-> [s |-> 1, m |-> <<141>>, e |-> -7],
          logc |-> [s |-> -1, m |-> <<12685, 13405, 792>>, e |-> -43],
          logctail |-> [s |-> 1, m |-> <<27341, 21323, 15892, 19>>, e |-> -95]],
         [invc |-> [s |-> 1, m |-> <<141>>, e |-> -7],
          logc |-> [s |-> -1, m |-> <<12685, 13405, 792>>, e |-> -43],
          logctail |-> [s |-> 1, m |-> <<27341, 21323, 15892, 19>>, e |-> -95]],
         [invc |-> [s |-> 1, m |-> <<35>>, e |-> -5],
          logc |-> [s |-> -1, m |-> <<22315, 3368, 734>>, e |-> -43],
          logctail |-> [s |-> -1, m |-> <<14829, 18739, 11887, 90>>, e |-> -96]],
         [invc |-> [s |-> 1, m |-> <<139>>, e |-> -7],
          logc |-> [s |-> -1, m |-> <<30769, 12403, 675>>, e |-> -43],
          logctail |-> [s |-> 1, m |-> <<24151, 17292, 2413, 248>>, e |-> -98]],
         [invc |-> [s |-> 1, m |-> <<139>>, e |-> -7],
          logc |-> [s |-> -1, m |-> <<30769, 12403, 675>>, e |-> -43],
          logctail |-> [s |-> 1, m |-> <<24151, 17292, 2413, 248>>, e |-> -98]],
         [invc |-> [s |-> 1, m |-> <<69>>, e |-> -6],
          logc |-> [s |-> -1, m |-> <<12511, 7545, 616>>, e |-> -43],
          logctail |-> [s |-> 1, m |-> <<5087, 6642, 31595, 226>>, e |-> -97]],
         [invc |-> [s |-> 1, m |-> <<69>>, e |-> -6],
          logc |-> [s |-> -1, m |-> <<12511, 7545, 616>>, e |-> -43],
          logctail |-> [s |-> 1, m |-> <<5087, 6642, 31595, 226>>, e |-> -97]],
         [invc |-> [s |-> 1, m |-> <<137>>, e |-> -7],
          logc |-> [s |-> -1, m |-> <<23879, 5339, 139>>, e |-> -41],
          logctail |-> [s |-> 1, m |-> <<8969, 27935, 29049, 163>>, e |-> -98]],
         [invc |-> [s |-> 1, m |-> <<17>>, e |-> -4],
          logc |-> [s |-> -1, m |-> <<35, 10435, 248>>, e |-> -42],
          logctail |-> [s |-> 1, m |-> <<3729, 1645, 26234, 234>>, e |-> -97]],
         [invc |-> [s |-> 1, m |-> <<17>>, e |-> -4],
          logc |-> [s |-> -1, m |-> <<35, 10435, 248>>, e |-> -42],
          logctail |-> [s |-> 1, m |-> <<3729, 1645, 26234, 234>>, e |-> -97]],
         [invc |-> [s |-> 1, m |-> <<135>>, e |-> -7],
          logc |-> [s |-> -1, m |-> <<25139, 2933, 218>>, e |-> -42],
          logctail |-> [s |-> 1, m |-> <<7187, 29419, 634, 57>>, e |-> -96]],
         [invc |-> [s |-> 1, m |-> <<135>>, e |-> -7],
          logc |-> [s |-> -1, m |-> <<25139, 2933, 218>>, e |-> -42],
          logctail |-> [s |-> 1, m |-> <<7187, 29419, 634, 57>>, e |-> -96]],
         [invc |-> [s |-> 1, m |-> <<67>>, e |-> -6],
          logc |-> [s |-> -1, m |-> <<22731, 8903, 375>>, e |-> -43],
          logctail |-> [s |-> -1, m |-> <<20727, 13554, 30860, 115>>, e |-> -96]],
         [invc |-> [s |-> 1, m |-> <<67>>, e |-> -6],
          logc |-> [s |-> -1, m |-> <<22731, 8903, 375>>, e |-> -43],
          logctail |-> [s |-> -1, m |-> <<20727, 13554, 30860, 115>>, e |-> -96]],
         [invc |-> [s |-> 1, m |-> <<133>>, e |-> -7],
          logc |-> [s |-> -1, m |-> <<26619, 29757, 313>>, e |-> -43],
          logctail |-> [s |-> 1, m |-> <<32597, 29990, 1391, 84>>, e |-> -99]],
         [invc |-> [s |-> 1, m |-> <<133>>, e |-> -7],
          logc |-> [s |-> -1, m |-> <<26619, 29757, 313>>, e |-> -43],
          logctail |-> [s |-> 1, m |-> <<32597, 29990, 1391, 84>>, e |-> -99]],
         [invc |-> [s |-> 1, m |-> <<33>>, e |-> -5],
          logc |-> [s |-> -1, m |-> <<25039, 24742, 15>>, e |-> -39],
          logctail |-> [s |-> -1, m |-> <<633, 15935, 38, 51>>, e |-> -95]],
         [invc |-> [s |-> 1, m |-> <<33>>, e |-> -5],
          logc |-> [s |-> -1, m |-> <<25039, 24742, 15>>, e |-> -39],
          logctail |-> [s |-> -1, m |-> <<633, 15935, 38, 51>>, e |-> -95]],
         [invc |-> [s |-> 1, m |-> <<131>>, e |-> -7],
          logc |-> [s |-> -1, m |-> <<4011, 25708, 189>>, e |-> -43],
          logctail |-> [s |-> -1, m |-> <<9785, 10229, 13650, 196>>, e |-> -97]],
         [invc |-> [s |-> 1, m |-> <<65>>, e |-> -6],
          logc |-> [s |-> -1, m |-> <<11327, 24660, 31>>, e |-> -41],
          logctail |-> [s |-> -1, m |-> <<27047, 31593, 7804, 62>>, e |-> -100]],
         [invc |-> [s |-> 1, m |-> <<65>>, e |-> -6],
          logc |-> [s |-> -1, m |-> <<11327, 24660, 31>>, e |-> -41],
          logctail |-> [s |-> -1, m |-> <<27047, 31593, 7804, 62>>, e |-> -100]],
         [invc |-> [s |-> 1, m |-> <<129>>, e |-> -7],
          logc |-> [s |-> -1, m |-> <<9905, 31749, 7>>, e |-> -40],
          logctail |-> [s |-> -1, m |-> <<4153, 1773, 25151, 51>>, e |-> -96]],
         [invc |-> [s |-> 1, m |-> <<129>>, e |-> -7],
          logc |-> [s |-> -1, m |-> <<9905, 31749, 7>>, e |-> -40],
          logctail |-> [s |-> -1, m |-> <<4153, 1773, 25151, 51>>, e |-> -96]],
         [invc |-> [s |-> 1, m |-> <<1>>, e |-> 0],
          logc |-> [s |-> 1, m |-> <<>>, e |-> 0],
          logctail |-> [s |-> 1, m |-> <<>>, e |-> 0]],
         [invc |-> [s |-> 1, m |-> <<1>>, e |-> 0],
          logc |-> [s |-> 1, m |-> <<>>, e |-> 0],
          logctail |-> [s |-> 1, m |-> <<>>, e |-> 0]],
         [invc |-> [s |-> 1, m |-> <<127>>, e |-> -7],
          logc |-> [s |-> 1, m |-> <<30089, 8234, 64>>, e |-> -43],
          logctail |-> [s |-> -1, m |-> <<9597, 26215, 25525, 16>>, e |-> -95]],
         [invc |-> [s |-> 1, m |-> <<63>>, e |-> -6],
          logc |-> [s |-> 1, m |-> <<12583, 345, 129>>, e |-> -43],
          logctail |-> [s |-> -1, m |-> <<31721, 1762, 14518, 79>>, e |-> -96]],
         [invc |-> [s |-> 1, m |-> <<125>>, e |-> -7],
          logc |-> [s |-> 1, m |-> <<10441, 4682, 97>>, e |-> -42],
          logctail |-> [s |-> -1, m |-> <<781, 6445, 8378, 53>>, e |-> -95]],
         [invc |-> [s |-> 1, m |-> <<31>>, e |-> -5],
          logc |-> [s |-> 1, m |-> <<10141, 2796, 260>>, e |-> -43],
          logctail |-> [s |-> 1, m |-> <<22355, 14819, 18177, 136>>, e |-> -99]],
         [invc |-> [s |-> 1, m |-> <<123>>, e |-> -7],
          logc |-> [s |-> 1, m |-> <<27159, 26286, 40>>, e |-> -40],
          logctail |-> [s |-> -1, m |-> <<16293, 23919, 2873, 28>>, e |-> -94]],
         [invc |-> [s |-> 1, m |-> <<61>>, e |-> -6],
          logc |-> [s |-> 1, m |-> <<21119, 9552, 393>>, e |-> -43],
          logctail |-> [s |-> -1, m |-> <<9853, 8372, 26199, 203>>, e |-> -98]],
         [invc |-> [s |-> 1, m |-> <<121>>, e |-> -7],
          logc |-> [s |-> 1, m |-> <<14199, 23454, 460>>, e |-> -43],
          logctail |-> [s |-> -1, m |-> <<10247, 4016, 9161, 211>>, e |-> -98]],
         [invc |-> [s |-> 1, m |-> <<241>>, e |-> -8],
          logc |-> [s |-> 1, m |-> <<27, 20878, 494>>, e |-> -43],
          logctail |-> [s |-> -1, m |-> <<15227, 8082, 17657, 240>>, e |-> -99]],
         [invc |-> [s |-> 1, m |-> <<239>>, e |-> -8],
          logc |-> [s |-> 1, m |-> <<2611, 29629, 562>>, e |-> -43],
          logctail |-> [s |-> -1, m |-> <<7835, 11291, 18805, 169>>, e |-> -97]],
         [invc |-> [s |-> 1, m |-> <<237>>, e |-> -8],
          logc |-> [s |-> 1, m |-> <<16015, 24410, 631>>, e |-> -43],
          logctail |-> [s |-> 1, m |-> <<20183, 19382, 8570, 230>>, e |-> -97]],
         [invc |-> [s |-> 1, m |-> <<235>>, e |-> -8],
          logc |-> [s |-> 1, m |-> <<27837, 5540, 701>>, e |-> -43],
          logctail |-> [s |-> -1, m |-> <<3727, 15453, 21004, 113>>, e |-> -96]],
         [invc |-> [s |-> 1, m |-> <<117>>, e |-> -7],
          logc |-> [s |-> 1, m |-> <<11179, 1688, 368>>, e |-> -42],
          logctail |-> [s |-> 1, m |-> <<30361, 10653, 15643, 112>>, e |-> -100]],
         [invc |-> [s |-> 1, m |-> <<29>>, e |-> -5],
          logc |-> [s |-> 1, m |-> <<30053, 6898, 403>>, e |-> -42],
          logctail |-> [s |-> 1, m |-> <<9197, 15037, 8888, 76>>, e |-> -96]],
         [invc |-> [s |-> 1, m |-> <<115>>, e |-> -7],
          logc |-> [s |-> 1, m |-> <<28011, 11400, 877>>, e |-> -43],
          logctail |-> [s |-> -1, m |-> <<26853, 22510, 16896, 156>>, e |-> -98]],
         [invc |-> [s |-> 1, m |-> <<229>>, e |-> -8],
          logc |-> [s |-> 1, m |-> <<1777, 17088, 456>>, e |-> -42],
          logctail |-> [s |-> 1, m |-> <<11475, 3253, 6983, 178>>, e |-> -97]],
         [invc |-> [s |-> 1, m |-> <<227>>, e |-> -8],
          logc |-> [s |-> 1, m |-> <<6225, 29592, 984>>, e |-> -43],
          logctail |-> [s |-> -1, m |-> <<12847, 2814, 14349, 7>>, e |-> -92]],
         [invc |-> [s |-> 1, m |-> <<113>>, e |-> -7],
          logc |-> [s |-> 1, m |-> <<20191, 2323, 1021>>, e |-> -43],
          logctail |-> [s |-> -1, m |-> <<2813, 8002, 21337, 169>>, e |-> -97]],
         [invc |-> [s |-> 1, m |-> <<7>>, e |-> -3],
          logc |-> [s |-> 1, m |-> <<4415, 30952, 546>>, e |-> -42],
          logctail |-> [s |-> 1, m |-> <<1017, 20013, 24305, 71>>, e |-> -96]],
         [invc |-> [s |-> 1, m |-> <<223>>, e |-> -8],
          logc |-> [s |-> 1, m |-> <<25151, 17775, 1130>>, e |-> -43],
          logctail |-> [s |-> 1, m |-> <<9805, 8732, 10126, 57>>, e |-> -95]],
         [invc |-> [s |-> 1, m |-> <<221>>, e |-> -8],
          logc |-> [s |-> 1, m |-> <<6413, 17796, 150>>, e |-> -40],
          logctail |-> [s |-> 1, m |-> <<13473, 5891, 30131, 156>>, e |-> -99]],
         [invc |-> [s |-> 1, m |-> <<55>>, e |-> -6],
          logc |-> [s |-> 1, m |-> <<345, 16278, 1241>>, e |-> -43],
          logctail |-> [s |-> 1, m |-> <<29321, 18070, 16032, 177>>, e |-> -103]],
         [invc |-> [s |-> 1, m |-> <<109>>, e |-> -7],
          logc |-> [s |-> 1, m |-> <<13115, 10160, 1316>>, e |-> -43],
          logctail |-> [s |-> 1, m |-> <<14031, 21823, 16828, 21>>, e |-> -94]],
         [invc |-> [s |-> 1, m |-> <<217>>, e |-> -8],
          logc |-> [s |-> 1, m |-> <<18971, 31932, 1353>>, e |-> -43],
          logctail |-> [s |-> 1, m |-> <<32199, 19154, 20387, 177>>, e |-> -97]],
         [invc |-> [s |-> 1, m |-> <<215>>, e |-> -8],
          logc |-> [s |-> 1, m |-> <<26817, 27095, 1429>>, e |-> -43],
          logctail |-> [s |-> 1, m |-> <<1487, 19215, 26565, 25>>, e |-> -95]],
         [invc |-> [s |-> 1, m |-> <<107>>, e |-> -7],
          logc |-> [s |-> 1, m |-> <<14167, 593, 1468>>, e |-> -43],
          logctail |-> [s |-> -1, m |-> <<8673, 19256, 17975, 168>>, e |-> -97]],
         [invc |-> [s |-> 1, m |-> <<213>>, e |-> -8],
          logc |-> [s |-> 1, m |-> <<21573, 12720, 1506>>, e |-> -43],
          logctail |-> [s |-> -1, m |-> <<17157, 24866, 6209, 227>>, e |-> -98]],
         [invc |-> [s |-> 1, m |-> <<211>>, e |-> -8],
          logc |-> [s |-> 1, m |-> <<27449, 32095, 98>>, e |-> -39],
          logctail |-> [s |-> -1, m |-> <<11473, 21970, 30034, 185>>, e |-> -99]],
         [invc |-> [s |-> 1, m |-> <<105>>, e |-> -7],
          logc |-> [s |-> 1, m |-> <<23799, 13493, 101>>, e |-> -39],
          logctail |-> [s |-> 1, m |-> <<32623, 12609, 18593, 191>>, e |-> -99]],
         [invc |-> [s |-> 1, m |-> <<13>>, e |-> -4],
          logc |-> [s |-> 1, m |-> <<25687, 16083, 850>>, e |-> -42],
          logctail |-> [s |-> -1, m |-> <<8553, 8364, 18701, 195>>, e |-> -97]],
         [invc |-> [s |-> 1, m |-> <<207>>, e |-> -8],
          logc |-> [s |-> 1, m |-> <<30141, 15114, 1740>>, e |-> -43],
          logctail |-> [s |-> -1, m |-> <<28885, 20140, 27418, 112>>, e |-> -98]],
         [invc |-> [s |-> 1, m |-> <<103>>, e |-> -7],
          logc |-> [s |-> 1, m |-> <<16863, 2163, 890>>, e |-> -42],
          logctail |-> [s |-> -1, m |-> <<2395, 22868, 6024, 117>>, e |-> -96]],
         [invc |-> [s |-> 1, m |-> <<205>>, e |-> -8],
          logc |-> [s |-> 1, m |-> <<28417, 32632, 1819>>, e |-> -43],
          logctail |-> [s |-> -1, m |-> <<5609, 17814, 22757, 71>>, e |-> -99]],
         [invc |-> [s |-> 1, m |-> <<203>>, e |-> -8],
          logc |-> [s |-> 1, m |-> <<3401, 10166, 1900>>, e |-> -43],
          logctail |-> [s |-> -1, m |-> <<12341, 28203, 31915, 215>>, e |-> -97]],
         [invc |-> [s |-> 1, m |-> <<101>>, e |-> -7],
          logc |-> [s |-> 1, m |-> <<32369, 25055, 1940>>, e |-> -43],
          logctail |-> [s |-> 1, m |-> <<8003, 27656, 1161, 9>>, e |-> -99]],
         [invc |-> [s |-> 1, m |-> <<201>>, e |-> -8],
          logc |-> [s |-> 1, m |-> <<25821, 27483, 123>>, e |-> -39],
          logctail |-> [s |-> -1, m |-> <<3601, 19319, 1109, 209>>, e |-> -103]],
         [invc |-> [s |-> 1, m |-> <<25>>, e |-> -5],
          logc |-> [s |-> 1, m |-> <<19259, 9101, 2022>>, e |-> -43],
          logctail |-> [s |-> 1, m |-> <<19955, 6465, 29435, 13>>, e |-> -94]],
         [invc |-> [s |-> 1, m |-> <<99>>, e |-> -7],
          logc |-> [s |-> 1, m |-> <<2475, 19992, 2104>>, e |-> -43],
          logctail |-> [s |-> 1, m |-> <<20113, 11738, 29548, 196>>, e |-> -100]],
         [invc |-> [s |-> 1, m |-> <<197>>, e |-> -8],
          logc |-> [s |-> 1, m |-> <<15115, 17110, 536>>, e |-> -41],
          logctail |-> [s |-> 1, m |-> <<27369, 11385, 25132, 184>>, e |-> -97]],
         [invc |-> [s |-> 1, m |-> <<49>>, e |-> -6],
          logc |-> [s |-> 1, m |-> <<17661, 25504, 2187>>, e |-> -43],
          logctail |-> [s |-> -1, m |-> <<31751, 12754, 8462, 56>>, e |-> -95]],
         [invc |-> [s |-> 1, m |-> <<195>>, e |-> -8],
          logc |-> [s |-> 1, m |-> <<30111, 22322, 2229>>, e |-> -43],
          logctail |-> [s |-> 1, m |-> <<5761, 28490, 27447, 220>>, e |-> -97]],
         [invc |-> [s |-> 1, m |-> <<97>>, e |-> -7],
          logc |-> [s |-> 1, m |-> <<27469, 26200, 2271>>, e |-> -43],
          logctail |-> [s |-> 1, m |-> <<15799, 8847, 7093, 229>>, e |-> -97]],
         [invc |-> [s |-> 1, m |-> <<193>>, e |-> -8],
          logc |-> [s |-> 1, m |-> <<8663, 4443, 2314>>, e |-> -43],
          logctail |-> [s |-> 1, m |-> <<23925, 14918, 4029, 106>>, e |-> -98]],
         [invc |-> [s |-> 1, m |-> <<191>>, e |-> -8],
          logc |-> [s |-> 1, m |-> <<19913, 24079, 1199>>, e |-> -42],
          logctail |-> [s |-> 1, m |-> <<317, 9512, 7418, 53>>, e |-> -95]],
         [invc |-> [s |-> 1, m |-> <<95>>, e |-> -7],
          logc |-> [s |-> 1, m |-> <<3739, 20254, 610>>, e |-> -41],
          logctail |-> [s |-> -1, m |-> <<10135, 13512, 28989, 24>>, e |-> -94]],
         [invc |-> [s |-> 1, m |-> <<189>>, e |-> -8],
          logc |-> [s |-> 1, m |-> <<27617, 27886, 1242>>, e |-> -42],
          logctail |-> [s |-> 1, m |-> <<12025, 27708, 14182, 17>>, e |-> -95]],
         [invc |-> [s |-> 1, m |-> <<47>>, e |-> -6],
          logc |-> [s |-> 1, m |-> <<29491, 19022, 1264>>, e |-> -42],
          logctail |-> [s |-> 1, m |-> <<12119, 23299, 15188, 48>>, e |-> -96]],
         [invc |-> [s |-> 1, m |-> <<187>>, e |-> -8],
          logc |-> [s |-> 1, m |-> <<31421, 27912, 2572>>, e |-> -43],
          logctail |-> [s |-> 1, m |-> <<24733, 22817, 4315, 199>>, e |-> -99]],
         [invc |-> [s |-> 1, m |-> <<93>>, e |-> -7],
          logc |-> [s |-> 1, m |-> <<20025, 25456, 2616>>, e |-> -43],
          logctail |-> [s |-> -1, m |-> <<22133, 4815, 7992, 249>>, e |-> -97]],
         [invc |-> [s |-> 1, m |-> <<185>>, e |-> -8],
          logc |-> [s |-> 1, m |-> <<24947, 15379, 1330>>, e |-> -42],
          logctail |-> [s |-> -1, m |-> <<13865, 3461, 8329, 60>>, e |-> -95]],
         [invc |-> [s |-> 1, m |-> <<23>>, e |-> -5],
          logc |-> [s |-> 1, m |-> <<14789, 10976, 676>>, e |-> -41],
          logctail |-> [s |-> 1, m |-> <<18265, 713, 31170, 245>>, e |-> -97]],
         [invc |-> [s |-> 1, m |-> <<183>>, e |-> -8],
          logc |-> [s |-> 1, m |-> <<15501, 32490, 1374>>, e |-> -42],
          logctail |-> [s |-> 1, m |-> <<16623, 23738, 14263, 253>>, e |-> -98]],
         [invc |-> [s |-> 1, m |-> <<91>>, e |-> -7],
          logc |-> [s |-> 1, m |-> <<31435, 23517, 698>>, e |-> -41],
          logctail |-> [s |-> -1, m |-> <<6519, 1106, 2858, 52>>, e |-> -97]]>>]

\* The data of exp: invln2N is 128 / log(2), shift is 1.5 * 2^52,
\* negln2hiN + negln2loN is near -log(2) / 128, poly holds the coefficients
\* C2 to C5 of the polynomial, and for j (from 0) of tab,
\* scale + scale * tail is near 2^(j / 128).  (The library keeps the bits
\* of scale less j * 2^45.)
exp_data ==
    [invln2N |-> [s |-> 1, m |-> <<16767, 25899, 10894, 92>>, e |-> -44],
     shift |-> [s |-> 1, m |-> <<3>>, e |-> 51],
     negln2hiN |-> [s |-> -1, m |-> <<32637, 11842, 44>>, e |-> -43],
     negln2loN |-> [s |-> -1, m |-> <<7581, 15518, 28469, 115>>, e |-> -98],
     poly |->
       <<[s |-> 1, m |-> <<32189, 32767, 32767, 255>>, e |-> -54],
         [s |-> 1, m |-> <<21775, 10922, 21845, 42>>, e |-> -53],
         [s |-> 1, m |-> <<11153, 7726, 21847, 170>>, e |-> -57],
         [s |-> 1, m |-> <<20503, 20297, 17477, 136>>, e |-> -59]>>,
     tab |->
       <<[tail |-> [s |-> 1, m |-> <<>>, e |-> 0],
          scale |-> [s |-> 1, m |-> <<1>>, e |-> 0]],
         [tail |-> [s |-> 1, m |-> <<24503, 6792, 30366, 108>>, e |-> -105],
          scale |-> [s |-> 1, m |-> <<13109, 21494, 22774, 128>>, e |-> -52]],
         [tail |-> [s |-> -1, m |-> <<23645, 14769, 78, 139>>, e |-> -108],
          scale |-> [s |-> 1, m |-> <<97, 31983, 12904, 129>>, e |-> -52]],
         [tail |-> [s |-> -1, m |-> <<26321, 8462, 31208, 130>>, e |-> -106],
          scale |-> [s |-> 1, m |-> <<32645, 20700, 3159, 130>>, e |-> -52]],
         [tail |-> [s |-> 1, m |-> <<30227, 27343, 18760, 230>>, e |-> -107],
          scale |-> [s |-> 1, m |-> <<24925, 27018, 22960, 32>>, e |-> -50]],
         [tail |-> [s |-> -1, m |-> <<18301, 9209, 7424, 111>>, e |-> -106],
          scale |-> [s |-> 1, m |-> <<31599, 10717, 24790, 65>>, e |-> -51]],
         [tail |-> [s |-> 1, m |-> <<18529, 17357, 23865, 135>>, e |-> -109],
          scale |-> [s |-> 1, m |-> <<13177, 17949, 17314, 16>>, e |-> -49]],
         [tail |-> [s |-> 1, m |-> <<21401, 13927, 3985, 133>>, e |-> -106],
          scale |-> [s |-> 1, m |-> <<29571, 5517, 30971, 132>>, e |-> -52]],
         [tail |-> [s |-> 1, m |-> <<31597, 15110, 27289, 188>>, e |-> -106],
          scale |-> [s |-> 1, m |-> <<2319, 23027, 21857, 133>>, e |-> -52]],
         [tail |-> [s |-> 1, m |-> <<31743, 18814, 13594, 61>>, e |-> -105],
          scale |-> [s |-> 1, m |-> <<18423, 22244, 12872, 134>>, e |-> -52]],
         [tail |-> [s |-> 1, m |-> <<7377, 24671, 30965, 245>>, e |-> -112],
          scale |-> [s |-> 1, m |-> <<26833, 13011, 18392, 67>>, e |-> -51]],
         [tail |-> [s |-> -1, m |-> <<28171, 4896, 3282, 208>>, e |-> -109],
          scale |-> [s |-> 1, m |-> <<21275, 24573, 28058, 135>>, e |-> -52]],
         [tail |-> [s |-> -1, m |-> <<24199, 10799, 11428, 85>>, e |-> -105],
          scale |-> [s |-> 1, m |-> <<23377, 8228, 19463, 136>>, e |-> -52]],
         [tail |-> [s |-> -1, m |-> <<27221, 6301, 958, 132>>, e |-> -110],
          scale |-> [s |-> 1, m |-> <<3187, 24630, 10941, 34>>, e |-> -50]],
         [tail |-> [s |-> -1, m |-> <<31243, 14805, 4679, 71>>, e |-> -105],
          scale |-> [s |-> 1, m |-> <<18799, 10986, 10323, 4>>, e |-> -47]],
         [tail |-> [s |-> 1, m |-> <<21935, 21176, 20367, 134>>, e |-> -107],
          scale |-> [s |-> 1, m |-> <<3665, 4427, 27235, 138>>, e |-> -52]],
         [tail |-> [s |-> -1, m |-> <<12905, 31401, 3466, 16>>, e |-> -104],
          scale |-> [s |-> 1, m |-> <<20859, 30970, 19168, 139>>, e |-> -52]],
         [tail |-> [s |-> -1, m |-> <<12861, 11196, 32705, 248>>, e |-> -107],
          scale |-> [s |-> 1, m |-> <<18165, 14476, 5618, 70>>, e |-> -51]],
         [tail |-> [s |-> 1, m |-> <<21439, 32294, 9776, 220>>, e |-> -107],
          scale |-> [s |-> 1, m |-> <<19317, 22239, 3439, 141>>, e |-> -52]],
         [tail |-> [s |-> -1, m |-> <<30099, 30225, 13112, 91>>, e |-> -105],
          scale |-> [s |-> 1, m |-> <<5941, 16898, 15328, 35>>, e |-> -50]],
         [tail |-> [s |-> 1, m |-> <<20859, 29667, 23966, 6>>, e |-> -101],
          scale |-> [s |-> 1, m |-> <<23765, 12648, 10510, 71>>, e |-> -51]],
         [tail |-> [s |-> -1, m |-> <<14493, 5900, 7691, 255>>, e |-> -107],
          scale |-> [s |-> 1, m |-> <<22813, 17913, 13632, 143>>, e |-> -52]],
         [tail |-> [s |-> 1, m |-> <<17293, 2381, 15621, 211>>, e |-> -107],
          scale |-> [s |-> 1, m |-> <<18027, 2146, 3191, 72>>, e |-> -51]],
         [tail |-> [s |-> 1, m |-> <<1149, 25032, 26646, 131>>, e |-> -107],
          scale |-> [s |-> 1, m |-> <<28235, 4477, 16019, 72>>, e |-> -51]],
         [tail |-> [s |-> 1, m |-> <<10789, 29140, 3837, 45>>, e |-> -104],
          scale |-> [s |-> 1, m |-> <<11335, 7069, 7229, 18>>, e |-> -49]],
         [tail |-> [s |-> 1, m |-> <<18557, 25832, 30819, 186>>, e |-> -107],
          scale |-> [s |-> 1, m |-> <<9791, 8037, 18233, 146>>, e |-> -52]],
         [tail |-> [s |-> 1, m |-> <<29689, 6175, 3671, 65>>, e |-> -106],
          scale |-> [s |-> 1, m |-> <<31965, 19396, 11541, 147>>, e |-> -52]],
         [tail |-> [s |-> -1, m |-> <<1071, 16241, 28918, 90>>, e |-> -105],
          scale |-> [s |-> 1, m |-> <<25473, 17386, 4991, 148>>, e |-> -52]],
         [tail |-> [s |-> 1, m |-> <<11057, 23059, 24453, 151>>, e |-> -107],
          scale |-> [s |-> 1, m |-> <<24289, 27199, 31351, 148>>, e |-> -52]],
         [tail |-> [s |-> -1, m |-> <<24573, 6767, 17206, 116>>, e |-> -111],
          scale |-> [s |-> 1, m |-> <<11673, 31259, 11807, 9>>, e |-> -48]],
         [tail |-> [s |-> 1, m |-> <<685, 14598, 14210, 54>>, e |-> -105],
          scale |-> [s |-> 1, m |-> <<779, 19912, 18966, 150>>, e |-> -52]],
         [tail |-> [s |-> 1, m |-> <<19343, 5021, 21066, 240>>, e |-> -109],
          scale |-> [s |-> 1, m |-> <<6059, 10558, 22879, 75>>, e |-> -51]],
         [tail |-> [s |-> 1, m |-> <<21979, 19888, 6890, 77>>, e |-> -106],
          scale |-> [s |-> 1, m |-> <<14101, 5219, 7160, 152>>, e |-> -52]],
         [tail |-> [s |-> 1, m |-> <<7443, 29014, 16897, 44>>, e |-> -105],
          scale |-> [s |-> 1, m |-> <<22577, 30873, 1475, 153>>, e |-> -52]],
         [tail |-> [s |-> 1, m |-> <<31781, 24019, 14962, 127>>, e |-> -106],
          scale |-> [s |-> 1, m |-> <<5887, 25800, 28706, 153>>, e |-> -52]],
         [tail |-> [s |-> -1, m |-> <<5825, 7623, 9088, 45>>, e |-> -105],
          scale |-> [s |-> 1, m |-> <<8177, 16165, 23317, 154>>, e |-> -52]],
         [tail |-> [s |-> -1, m |-> <<27149, 29458, 9590, 18>>, e |-> -103],
          scale |-> [s |-> 1, m |-> <<10699, 28277, 18076, 155>>, e |-> -52]],
         [tail |-> [s |-> -1, m |-> <<5831, 6993, 4080, 100>>, e |-> -105],
          scale |-> [s |-> 1, m |-> <<27699, 27909, 6492, 78>>, e |-> -51]],
         [tail |-> [s |-> -1, m |-> <<7017, 16020, 9168, 71>>, e |-> -107],
          scale |-> [s |-> 1, m |-> <<8183, 27083, 8044, 157>>, e |-> -52]],
         [tail |-> [s |-> -1, m |-> <<6933, 26524, 25702, 200>>, e |-> -106],
          scale |-> [s |-> 1, m |-> <<10469, 1575, 3255, 158>>, e |-> -52]],
         [tail |-> [s |-> 1, m |-> <<19565, 20052, 32034, 172>>, e |-> -107],
          scale |-> [s |-> 1, m |-> <<6673, 19474, 15692, 79>>, e |-> -51]],
         [tail |-> [s |-> -1, m |-> <<13509, 31272, 9408, 76>>, e |-> -105],
          scale |-> [s |-> 1, m |-> <<8199, 598, 31301, 39>>, e |-> -50]],
         [tail |-> [s |-> -1, m |-> <<2395, 4143, 7741, 197>>, e |-> -110],
          scale |-> [s |-> 1, m |-> <<5909, 8695, 11284, 80>>, e |-> -51]],
         [tail |-> [s |-> -1, m |-> <<6683, 20115, 12909, 225>>, e |-> -108],
          scale |-> [s |-> 1, m |-> <<10391, 12961, 18391, 161>>, e |-> -52]],
         [tail |-> [s |-> 1, m |-> <<11281, 16773, 4021, 155>>, e |-> -111],
          scale |-> [s |-> 1, m |-> <<2349, 16579, 14369, 162>>, e |-> -52]],
         [tail |-> [s |-> 1, m |-> <<25839, 30220, 6180, 179>>, e |-> -106],
          scale |-> [s |-> 1, m |-> <<87, 23098, 10503, 163>>, e |-> -52]],
         [tail |-> [s |-> 1, m |-> <<889, 13634, 13191, 246>>, e |-> -109],
          scale |-> [s |-> 1, m |-> <<5069, 22200, 8616, 10>>, e |-> -48]],
         [tail |-> [s |-> 1, m |-> <<28963, 18401, 32739, 9>>, e |-> -102],
          scale |-> [s |-> 1, m |-> <<27119, 28887, 18005, 82>>, e |-> -51]],
         [tail |-> [s |-> 1, m |-> <<11003, 22383, 9267, 11>>, e |-> -104],
          scale |-> [s |-> 1, m |-> <<10791, 10860, 32619, 165>>, e |-> -52]],
         [tail |-> [s |-> 1, m |-> <<24695, 22185, 30455, 152>>, e |-> -106],
          scale |-> [s |-> 1, m |-> <<23821, 13307, 29386, 166>>, e |-> -52]],
         [tail |-> [s |-> -1, m |-> <<20935, 113, 10344, 126>>, e |-> -106],
          scale |-> [s |-> 1, m |-> <<11431, 27962, 26313, 167>>, e |-> -52]],
         [tail |-> [s |-> -1, m |-> <<9033, 14631, 31539, 190>>, e |-> -107],
          scale |-> [s |-> 1, m |-> <<13089, 8911, 11701, 84>>, e |-> -51]],
         [tail |-> [s |-> -1, m |-> <<14431, 31262, 31514, 198>>, e |-> -108],
          scale |-> [s |-> 1, m |-> <<10177, 22173, 26710, 84>>, e |-> -51]],
         [tail |-> [s |-> -1, m |-> <<11899, 27771, 9357, 88>>, e |-> -106],
          scale |-> [s |-> 1, m |-> <<4623, 5307, 18067, 170>>, e |-> -52]],
         [tail |-> [s |-> 1, m |-> <<27591, 6397, 27146, 76>>, e |-> -105],
          scale |-> [s |-> 1, m |-> <<5101, 14005, 24206, 85>>, e |-> -51]],
         [tail |-> [s |-> 1, m |-> <<6917, 24341, 25308, 220>>, e |-> -108],
          scale |-> [s |-> 1, m |-> <<18429, 10543, 13387, 172>>, e |-> -52]],
         [tail |-> [s |-> 1, m |-> <<21513, 17464, 3975, 131>>, e |-> -106],
          scale |-> [s |-> 1, m |-> <<21545, 14992, 11295, 173>>, e |-> -52]],
         [tail |-> [s |-> 1, m |-> <<25461, 20505, 3850, 83>>, e |-> -111],
          scale |-> [s |-> 1, m |-> <<18103, 5298, 9370, 174>>, e |-> -52]],
         [tail |-> [s |-> 1, m |-> <<16437, 22217, 19352, 161>>, e |-> -106],
          scale |-> [s |-> 1, m |-> <<9257, 17771, 29623, 21>>, e |-> -49]],
         [tail |-> [s |-> -1, m |-> <<30367, 17202, 4393, 231>>, e |-> -107],
          scale |-> [s |-> 1, m |-> <<23561, 29421, 6022, 176>>, e |-> -52]],
         [tail |-> [s |-> -1, m |-> <<27061, 20219, 6626, 28>>, e |-> -104],
          scale |-> [s |-> 1, m |-> <<21893, 24692, 4602, 177>>, e |-> -52]],
         [tail |-> [s |-> -1, m |-> <<29911, 2347, 9969, 81>>, e |-> -106],
          scale |-> [s |-> 1, m |-> <<26137, 25420, 18536, 5>>, e |-> -47]],
         [tail |-> [s |-> -1, m |-> <<19211, 24085, 26478, 19>>, e |-> -103],
          scale |-> [s |-> 1, m |-> <<8741, 1194, 2274, 179>>, e |-> -52]],
         [tail |-> [s |-> 1, m |-> <<1625, 16447, 4266, 46>>, e |-> -108],
          scale |-> [s |-> 1, m |-> <<10611, 10393, 1367, 180>>, e |-> -52]],
         [tail |-> [s |-> -1, m |-> <<17477, 28631, 23031, 19>>, e |-> -103],
          scale |-> [s |-> 1, m |-> <<15309, 19710, 633, 181>>, e |-> -52]],
         [tail |-> [s |-> -1, m |-> <<23745, 1844, 9563, 104>>, e |-> -108],
          scale |-> [s |-> 1, m |-> <<23231, 27159, 73, 182>>, e |-> -52]],
         [tail |-> [s |-> -1, m |-> <<21751, 14445, 20447, 77>>, e |-> -108],
          scale |-> [s |-> 1, m |-> <<6703, 30922, 32456, 182>>, e |-> -52]],
         [tail |-> [s |-> -1, m |-> <<2129, 10689, 28917, 134>>, e |-> -107],
          scale |-> [s |-> 1, m |-> <<25889, 31912, 32637, 45>>, e |-> -50]],
         [tail |-> [s |-> -1, m |-> <<16079, 31924, 32145, 192>>, e |-> -108],
          scale |-> [s |-> 1, m |-> <<6109, 29814, 8053, 46>>, e |-> -50]],
         [tail |-> [s |-> -1, m |-> <<14299, 22545, 15250, 11>>, e |-> -103],
          scale |-> [s |-> 1, m |-> <<24669, 9298, 16282, 46>>, e |-> -50]],
         [tail |-> [s |-> -1, m |-> <<29509, 7765, 12900, 88>>, e |-> -106],
          scale |-> [s |-> 1, m |-> <<26569, 11396, 32685, 186>>, e |-> -52]],
         [tail |-> [s |-> 1, m |-> <<21715, 15379, 29485, 132>>, e |-> -106],
          scale |-> [s |-> 1, m |-> <<23871, 8124, 421, 188>>, e |-> -52]],
         [tail |-> [s |-> -1, m |-> <<9501, 29339, 19314, 217>>, e |-> -108],
          scale |-> [s |-> 1, m |-> <<391, 26582, 1105, 189>>, e |-> -52]],
         [tail |-> [s |-> 1, m |-> <<16491, 10447, 13301, 167>>, e |-> -106],
          scale |-> [s |-> 1, m |-> <<24729, 304, 986, 95>>, e |-> -51]],
         [tail |-> [s |-> 1, m |-> <<27733, 22444, 12166, 175>>, e |-> -109],
          scale |-> [s |-> 1, m |-> <<10033, 14031, 17894, 95>>, e |-> -51]],
         [tail |-> [s |-> -1, m |-> <<26529, 12211, 17290, 98>>, e |-> -106],
          scale |-> [s |-> 1, m |-> <<3337, 21566, 2126, 96>>, e |-> -51]],
         [tail |-> [s |-> -1, m |-> <<19917, 30877, 27062, 38>>, e |-> -104],
          scale |-> [s |-> 1, m |-> <<19987, 12953, 5670, 193>>, e |-> -52]],
         [tail |-> [s |-> -1, m |-> <<32655, 14873, 15624, 65>>, e |-> -106],
          scale |-> [s |-> 1, m |-> <<18349, 3143, 7273, 194>>, e |-> -52]],
         [tail |-> [s |-> -1, m |-> <<11191, 22642, 10401, 83>>, e |-> -105],
          scale |-> [s |-> 1, m |-> <<4845, 13961, 9062, 195>>, e |-> -52]],
         [tail |-> [s |-> 1, m |-> <<1861, 26459, 8538>>, e |-> -97],
          scale |-> [s |-> 1, m |-> <<26265, 13076, 11039, 196>>, e |-> -52]],
         [tail |-> [s |-> 1, m |-> <<15021, 24824, 14127, 59>>, e |-> -105],
          scale |-> [s |-> 1, m |-> <<8411, 1109, 13205, 197>>, e |-> -52]],
         [tail |-> [s |-> -1, m |-> <<26623, 14731, 22914, 173>>, e |-> -109],
          scale |-> [s |-> 1, m |-> <<20771, 2906, 20274, 49>>, e |-> -50]],
         [tail |-> [s |-> 1, m |-> <<22481, 11513, 30339, 55>>, e |-> -106],
          scale |-> [s |-> 1, m |-> <<15259, 6421, 25437, 99>>, e |-> -51]],
         [tail |-> [s |-> -1, m |-> <<15747, 20028, 9342, 152>>, e |-> -106],
          scale |-> [s |-> 1, m |-> <<32739, 2961, 10422, 100>>, e |-> -51]],
         [tail |-> [s |-> -1, m |-> <<7721, 5848, 9954, 237>>, e |-> -110],
          scale |-> [s |-> 1, m |-> <<17893, 24987, 23774, 201>>, e |-> -52]],
         [tail |-> [s |-> -1, m |-> <<14681, 31009, 4069, 225>>, e |-> -109],
          scale |-> [s |-> 1, m |-> <<21007, 6032, 26899, 202>>, e |-> -52]],
         [tail |-> [s |-> -1, m |-> <<31957, 8948, 1670, 73>>, e |-> -105],
          scale |-> [s |-> 1, m |-> <<25829, 21499, 24416, 12>>, e |-> -48]],
         [tail |-> [s |-> -1, m |-> <<3659, 11981, 10675, 174>>, e |-> -107],
          scale |-> [s |-> 1, m |-> <<989, 28874, 16866, 102>>, e |-> -51]],
         [tail |-> [s |-> 1, m |-> <<20007, 22307, 16368, 141>>, e |-> -108],
          scale |-> [s |-> 1, m |-> <<16137, 12372, 28964, 12>>, e |-> -48]],
         [tail |-> [s |-> 1, m |-> <<29627, 16916, 18647, 238>>, e |-> -109],
          scale |-> [s |-> 1, m |-> <<8995, 13254, 8588, 207>>, e |-> -52]],
         [tail |-> [s |-> -1, m |-> <<8803, 17604, 5136, 190>>, e |-> -107],
          scale |-> [s |-> 1, m |-> <<25957, 30395, 12697, 208>>, e |-> -52]],
         [tail |-> [s |-> 1, m |-> <<12757, 18372, 29211, 216>>, e |-> -107],
          scale |-> [s |-> 1, m |-> <<11571, 22676, 17007, 209>>, e |-> -52]],
         [tail |-> [s |-> -1, m |-> <<15125, 10105, 28487, 141>>, e |-> -106],
          scale |-> [s |-> 1, m |-> <<9565, 25724, 21518, 210>>, e |-> -52]],
         [tail |-> [s |-> 1, m |-> <<6377, 7406, 6243, 67>>, e |-> -105],
          scale |-> [s |-> 1, m |-> <<5739, 1228, 15567, 26>>, e |-> -49]],
         [tail |-> [s |-> 1, m |-> <<23219, 23782, 9745, 163>>, e |-> -107],
          scale |-> [s |-> 1, m |-> <<32191, 10995, 31149, 212>>, e |-> -52]],
         [tail |-> [s |-> -1, m |-> <<10093, 19399, 24525, 37>>, e |-> -105],
          scale |-> [s |-> 1, m |-> <<31165, 16339, 1751, 107>>, e |-> -51]],
         [tail |-> [s |-> 1, m |-> <<13191, 9622, 27102, 224>>, e |-> -107],
          scale |-> [s |-> 1, m |-> <<21421, 12981, 8830, 215>>, e |-> -52]],
         [tail |-> [s |-> -1, m |-> <<27901, 19153, 30494, 65>>, e |-> -105],
          scale |-> [s |-> 1, m |-> <<23347, 10637, 7182, 108>>, e |-> -51]],
         [tail |-> [s |-> -1, m |-> <<22365, 22236, 1970, 87>>, e |-> -109],
          scale |-> [s |-> 1, m |-> <<5627, 28830, 20106, 217>>, e |-> -52]],
         [tail |-> [s |-> -1, m |-> <<7129, 29165, 2624, 2>>, e |-> -100],
          scale |-> [s |-> 1, m |-> <<11421, 3557, 13029, 109>>, e |-> -51]],
         [tail |-> [s |-> -1, m |-> <<25805, 7254, 22260, 49>>, e |-> -107],
          scale |-> [s |-> 1, m |-> <<24135, 26102, 32219, 219>>, e |-> -52]],
         [tail |-> [s |-> -1, m |-> <<2613, 22193, 15241, 143>>, e |-> -106],
          scale |-> [s |-> 1, m |-> <<805, 12449, 19296, 110>>, e |-> -51]],
         [tail |-> [s |-> 1, m |-> <<24013, 5311, 32604, 167>>, e |-> -108],
          scale |-> [s |-> 1, m |-> <<24809, 4171, 6205, 111>>, e |-> -51]],
         [tail |-> [s |-> -1, m |-> <<9771, 32073, 15867, 35>>, e |-> -104],
          scale |-> [s |-> 1, m |-> <<7689, 14254, 19209, 223>>, e |-> -52]],
         [tail |-> [s |-> 1, m |-> <<3251, 24926, 15032, 155>>, e |-> -108],
          scale |-> [s |-> 1, m |-> <<21671, 28354, 6555, 56>>, e |-> -50]],
         [tail |-> [s |-> 1, m |-> <<32613, 11855, 25394, 61>>, e |-> -105],
          scale |-> [s |-> 1, m |-> <<26685, 24575, 342, 113>>, e |-> -51]],
         [tail |-> [s |-> 1, m |-> <<22123, 26756, 24719, 41>>, e |-> -105],
          scale |-> [s |-> 1, m |-> <<20811, 23727, 8132, 227>>, e |-> -52]],
         [tail |-> [s |-> 1, m |-> <<6759, 28828, 14012, 158>>, e |-> -109],
          scale |-> [s |-> 1, m |-> <<26549, 10253, 15798, 228>>, e |-> -52]],
         [tail |-> [s |-> 1, m |-> <<17197, 6948, 13718, 23>>, e |-> -106],
          scale |-> [s |-> 1, m |-> <<4201, 14815, 23683, 229>>, e |-> -52]],
         [tail |-> [s |-> -1, m |-> <<23273, 972, 5169, 66>>, e |-> -106],
          scale |-> [s |-> 1, m |-> <<25085, 21853, 15894, 115>>, e |-> -51]],
         [tail |-> [s |-> -1, m |-> <<31343, 32767, 13684, 253>>, e |-> -107],
          scale |-> [s |-> 1, m |-> <<25183, 9475, 1837, 58>>, e |-> -50]],
         [tail |-> [s |-> -1, m |-> <<10569, 28907, 14008, 128>>, e |-> -106],
          scale |-> [s |-> 1, m |-> <<17657, 2061, 24334, 116>>, e |-> -51]],
         [tail |-> [s |-> 1, m |-> <<1959, 19578, 3606, 165>>, e |-> -108],
          scale |-> [s |-> 1, m |-> <<9351, 14839, 24675, 234>>, e |-> -52]],
         [tail |-> [s |-> -1, m |-> <<8719, 16512, 18040, 148>>, e |-> -107],
          scale |-> [s |-> 1, m |-> <<12403, 17842, 16497, 29>>, e |-> -49]],
         [tail |-> [s |-> 1, m |-> <<25771, 27360, 23120, 60>>, e |-> -105],
          scale |-> [s |-> 1, m |-> <<12933, 1974, 10136, 237>>, e |-> -52]],
         [tail |-> [s |-> 1, m |-> <<27467, 22530, 26982, 161>>, e |-> -107],
          scale |-> [s |-> 1, m |-> <<3491, 7984, 14948, 7>>, e |-> -47]],
         [tail |-> [s |-> -1, m |-> <<15903, 3944, 21636, 150>>, e |-> -107],
          scale |-> [s |-> 1, m |-> <<7007, 26359, 29276, 239>>, e |-> -52]],
         [tail |-> [s |-> -1, m |-> <<3529, 30350, 10980, 201>>, e |-> -107],
          scale |-> [s |-> 1, m |-> <<8489, 10731, 6424, 241>>, e |-> -52]],
         [tail |-> [s |-> 1, m |-> <<2259, 16501, 22545, 165>>, e |-> -108],
          scale |-> [s |-> 1, m |-> <<8187, 26507, 8285, 121>>, e |-> -51]],
         [tail |-> [s |-> 1, m |-> <<29297, 9018, 6065, 158>>, e |-> -107],
          scale |-> [s |-> 1, m |-> <<19587, 30606, 26951, 243>>, e |-> -52]],
         [tail |-> [s |-> -1, m |-> <<14623, 20986, 32196, 15>>, e |-> -103],
          scale |-> [s |-> 1, m |-> <<18541, 8868, 18783, 122>>, e |-> -51]],
         [tail |-> [s |-> -1, m |-> <<29821, 17478, 14947, 237>>, e |-> -107],
          scale |-> [s |-> 1, m |-> <<26609, 23324, 15648, 246>>, e |-> -52]],
         [tail |-> [s |-> 1, m |-> <<17409, 4202, 25054, 30>>, e |-> -104],
          scale |-> [s |-> 1, m |-> <<23079, 23746, 26735, 247>>, e |-> -52]],
         [tail |-> [s |-> 1, m |-> <<30105, 17321, 22313, 80>>, e |-> -106],
          scale |-> [s |-> 1, m |-> <<14999, 28375, 5292, 249>>, e |-> -52]],
         [tail |-> [s |-> 1, m |-> <<17143, 12753, 18770, 105>>, e |-> -106],
          scale |-> [s |-> 1, m |-> <<14613, 13019, 29959, 3>>, e |-> -46]],
         [tail |-> [s |-> -1, m |-> <<25581, 18551, 24299, 241>>, e |-> -107],
          scale |-> [s |-> 1, m |-> <<12165, 22222, 31741, 62>>, e |-> -50]],
         [tail |-> [s |-> 1, m |-> <<19869, 6947, 9453, 188>>, e |-> -108],
          scale |-> [s |-> 1, m |-> <<21019, 24679, 21472, 31>>, e |-> -49]],
         [tail |-> [s |-> 1, m |-> <<19593, 705, 5893, 152>>, e |-> -110],
          scale |-> [s |-> 1, m |-> <<29169, 22302, 20232, 254>>, e |-> -52]]>>]

\* The library computes with the operations below, each rounded once:
\* a * b, a + c, a - c, a * b + c and a * b - c.  A step <<v, op, ...>> gives
\* the variable v the result of op on the variables named after it; env
\* holds the values of the variables.
Step(env, s) ==
    [env EXCEPT ![s[1]] =
        FFma(env[s[3]],
             IF s[2] \in {"add", "sub"} THEN FromInt(1) ELSE env[s[4]],
             IF s[2] = "mul" THEN FromInt(0)
             ELSE IF s[2] = "add" THEN env[s[4]]
             ELSE IF s[2] = "sub" THEN FNeg(env[s[4]])
             ELSE IF s[2] = "fma" THEN env[s[5]]
             ELSE FNeg(env[s[5]]))]

\* The steps lo to hi of steps, one after the other
RECURSIVE Steps(_, _, _, _)
Steps(env, steps, lo, hi) ==
    IF lo > hi THEN env
    ELSE IF lo = hi THEN Step(env, steps[lo])
    ELSE CHOOSE val \in {Steps(first, steps, (lo + hi) \div 2 + 1, hi) :
                            first \in {Steps(env, steps, lo, (lo + hi) \div 2)}} : TRUE

\* log(x) as loghi + loglo, from z = x / 2^k, kd = k and the line invc, logc,
\* logctail of the table for the interval of z
log_inline ==
    << <<"r", "fms", "z", "invc", "one">>,
       <<"t1", "fma", "kd", "ln2hi", "logc">>,
       <<"t2", "add", "t1", "r">>,
       <<"lo1", "fma", "kd", "ln2lo", "logctail">>,
       <<"lo2", "sub", "t1", "t2">>,
       <<"lo2", "add", "lo2", "r">>,
       <<"ar", "mul", "A0", "r">>,
       <<"ar2", "mul", "r", "ar">>,
       <<"ar3", "mul", "r", "ar2">>,
       <<"hi", "add", "t2", "ar2">>,
       <<"lo3", "fms", "ar", "r", "ar2">>,
       <<"lo4", "sub", "t2", "hi">>,
       <<"lo4", "add", "lo4", "ar2">>,
       <<"p", "fma", "r", "A6", "A5">>,
       <<"q", "fma", "r", "A4", "A3">>,
       <<"p", "fma", "p", "ar2", "q">>,
       <<"q", "fma", "r", "A2", "A1">>,
       <<"p", "fma", "ar2", "p", "q">>,
       <<"lo", "add", "lo1", "lo2">>,
       <<"lo", "add", "lo", "lo3">>,
       <<"lo", "add", "lo", "lo4">>,
       <<"lo", "fma", "ar3", "p", "lo">>,
       <<"loghi", "add", "hi", "lo">>,
       <<"loglo", "sub", "hi", "loghi">>,
       <<"loglo", "add", "loglo", "lo">> >>

\* y * log(x) as ehi + elo, and kd, the integer nearest to ehi * 128 / log(2)
pow_ehi ==
    << <<"ehi", "mul", "y", "loghi">>,
       <<"elo", "fms", "loghi", "y", "ehi">>,
       <<"elo", "fma", "y", "loglo", "elo">>,
       <<"kd", "fma", "ehi", "invln2N", "shift">>,
       <<"kd", "sub", "kd", "shift">> >>

\* exp(ehi + elo) from kd and the line tail, scale of the table for it: r is
\* the rest of ehi + elo
exp_inline ==
    << <<"r", "fma", "kd", "negln2hiN", "ehi">>,
       <<"r", "fma", "kd", "negln2loN", "r">>,
       <<"r", "add", "elo", "r">>,
       <<"r2", "mul", "r", "r">>,
       <<"p", "fma", "r", "C3", "C2">>,
       <<"tmp", "add", "r", "tail">>,
       <<"tmp", "fma", "p", "r2", "tmp">>,
       <<"p", "fma", "r", "C5", "C4">>,
       <<"r2", "mul", "r2", "r2">>,
       <<"tmp", "fma", "p", "r2", "tmp">>,
       <<"tmp", "fma", "tmp", "scale", "scale">> >>

\* The variables before log_inline.  tmp is the upper half of the bits of x
\* (its exponent and the upper 20 bits of its fraction) less the upper half
\* of OFF = 0x3fe6955500000000, whose lower half is zero; it holds the
\* exponent k and the interval i of x.
pow_env(x, y, tmp) ==
    [z |-> [x EXCEPT !.e = @ - tmp \div 2^20], kd |-> FromInt(tmp \div 2^20), y |-> y,
     invc |-> pow_log_data.tab[((tmp \div 2^13) % 128) + 1].invc,
     logc |-> pow_log_data.tab[((tmp \div 2^13) % 128) + 1].logc,
     logctail |-> pow_log_data.tab[((tmp \div 2^13) % 128) + 1].logctail,
     ln2hi |-> pow_log_data.ln2hi, ln2lo |-> pow_log_data.ln2lo, one |-> FromInt(1),
     A0 |-> pow_log_data.poly[1], A1 |-> pow_log_data.poly[2], A2 |-> pow_log_data.poly[3],
     A3 |-> pow_log_data.poly[4], A4 |-> pow_log_data.poly[5], A5 |-> pow_log_data.poly[6],
     A6 |-> pow_log_data.poly[7],
     invln2N |-> exp_data.invln2N, shift |-> exp_data.shift,
     negln2hiN |-> exp_data.negln2hiN, negln2loN |-> exp_data.negln2loN,
     C2 |-> exp_data.poly[1], C3 |-> exp_data.poly[2], C4 |-> exp_data.poly[3],
     C5 |-> exp_data.poly[4],
     r |-> FromInt(0), t1 |-> FromInt(0), t2 |-> FromInt(0), lo1 |-> FromInt(0),
     lo2 |-> FromInt(0), lo3 |-> FromInt(0), lo4 |-> FromInt(0), ar |-> FromInt(0),
     ar2 |-> FromInt(0), ar3 |-> FromInt(0), hi |-> FromInt(0), lo |-> FromInt(0),
     p |-> FromInt(0), q |-> FromInt(0), loghi |-> FromInt(0), loglo |-> FromInt(0),
     ehi |-> FromInt(0), elo |-> FromInt(0), r2 |-> FromInt(0), tmp |-> FromInt(0),
     tail |-> FromInt(0), scale |-> FromInt(0)]

\* The variables before exp_inline: ki is kd as an integer, 128 * k + j, and
\* the scale of the result is that of the table for j with k added to its
\* exponent.
exp_env(env, ki) ==
    [env EXCEPT !.tail = exp_data.tab[(ki % 128) + 1].tail,
                !.scale = [exp_data.tab[(ki % 128) + 1].scale
                               EXCEPT !.e = @ + (ki - (ki % 128)) \div 128]]

\* pow(x, y) of the library for x > 0
pow(x, y) ==
    CHOOSE val \in
        {Steps(exp_env(env, env.kd.s * BigToInt(Shl(env.kd.m, env.kd.e))),
               exp_inline, 1, Len(exp_inline)).tmp :
            env \in {Steps(pow_env(x, y,
                                   (x.e + BitLen(x.m) + 1022) * 2^20
                                   + BigToInt(Shr(Shl(x.m, 53 - BitLen(x.m)), 32).q)
                                   - 2^20 - 1072076117),
                           log_inline \o pow_ehi, 1, Len(log_inline) + Len(pow_ehi))}} : TRUE

\* x ** i for an integer i >= 0.  A power of zero is zero, a power of 1.0
\* or -1.0 is 1.0 or -1.0, and the library computes the power of x < 0 as
\* that of -x, with the sign of x for an odd i.
FPow(x0, i0) ==
    CHOOSE val \in {(IF i = 0 THEN FromInt(1)
                     ELSE IF x.m = <<>> THEN x
                     ELSE IF x.m = <<1>> /\ x.e = 0 THEN FromInt(IF i % 2 = 0 THEN 1 ELSE x.s)
                     ELSE IF x.s = 1 \/ i % 2 = 0 THEN pow([x EXCEPT !.s = 1], FromInt(i))
                     ELSE FNeg(pow([x EXCEPT !.s = 1], FromInt(i)))) :
                       x \in {x0}, i \in {i0}} : TRUE

\* The integer nearest to x * k for an integer 0 < k < 2^15, a tie to the
\* even one: Python's round(x) for k = 1, ten times round(x, 1) for k = 10.
FRound(x0, k) ==
    CHOOSE val \in {(IF x.e >= 0 THEN x.s * BigToInt(Shl(BigMulSmall(x.m, k), x.e))
                     ELSE x.s * BigToInt(ShrNearestEven(BigMulSmall(x.m, k), -x.e))) :
                       x \in {x0}} : TRUE

(***************************************************************************)
(* svc/aqi_epa.py                                                          *)
(***************************************************************************)

\* Rows are <<concentration_low, concentration_high, aqi_low, aqi_high,
\* category, color>>, concentrations in ten-thousandths of the unit.
PM25_BREAKPOINTS ==
    << <<0,       120000,  0,   50,  "Good", "#00E400">>,
       <<121000,  354000,  51,  100, "Moderate", "#FFFF00">>,
       <<355000,  554000,  101, 150, "Unhealthy for Sensitive Groups", "#FF7E00">>,
       <<555000,  1504000, 151, 200, "Unhealthy", "#FF0000">>,
       <<1505000, 2504000, 201, 300, "Very Unhealthy", "#8F3F97">>,
       <<2505000, 3504000, 301, 400, "Hazardous", "#7E0023">>,
       <<3505000, 5004000, 401, 500, "Hazardous", "#7E0023">> >>

PM10_BREAKPOINTS ==
    << <<0,       540000,  0,   50,  "Good", "#00E400">>,
       <<550000,  1540000, 51,  100, "Moderate", "#FFFF00">>,
       <<1550000, 2540000, 101, 150, "Unhealthy for Sensitive Groups", "#FF7E00">>,
       <<2550000, 3540000, 151, 200, "Unhealthy", "#FF0000">>,
       <<3550000, 4240000, 201, 300, "Very Unhealthy", "#8F3F97">>,
       <<4250000, 5040000, 301, 400, "Hazardous", "#7E0023">>,
       <<5050000, 6040000, 401, 500, "Hazardous", "#7E0023">> >>

\* Mutant: the 8-hour table continued with the 1-hour rows up to AQI 500.
O3_8HR_BREAKPOINTS_Extended ==
    << <<0,    540,  0,   50,  "Good", "#00E400">>,
       <<550,  700,  51,  100, "Moderate", "#FFFF00">>,
       <<710,  850,  101, 150, "Unhealthy for Sensitive Groups", "#FF7E00">>,
       <<860,  1050, 151, 200, "Unhealthy", "#FF0000">>,
       <<1060, 2000, 201, 300, "Very Unhealthy", "#8F3F97">>,
       <<2010, 5040, 301, 400, "Hazardous", "#7E0023">>,
       <<5050, 6040, 401, 500, "Hazardous", "#7E0023">> >>

O3_8HR_BREAKPOINTS ==
    << <<0,    540,  0,   50,  "Good", "#00E400">>,
       <<550,  700,  51,  100, "Moderate", "#FFFF00">>,
       <<710,  850,  101, 150, "Unhealthy for Sensitive Groups", "#FF7E00">>,
       <<860,  1050, 151, 200, "Unhealthy", "#FF0000">>,
       <<1060, 2000, 201, 300, "Very Unhealthy", "#8F3F97">> >>

NO2_BREAKPOINTS ==
    << <<0,        530000,   0,   50,  "Good", "#00E400">>,
       <<540000,   1000000,  51,  100, "Moderate", "#FFFF00">>,
       <<1010000,  3600000,  101, 150, "Unhealthy for Sensitive Groups", "#FF7E00">>,
       <<3610000,  6490000,  151, 200, "Unhealthy", "#FF0000">>,
       <<6500000,  12490000, 201, 300, "Very Unhealthy", "#8F3F97">>,
       <<12500000, 16490000, 301, 400, "Hazardous", "#7E0023">>,
       <<16500000, 20490000, 401, 500, "Hazardous", "#7E0023">> >>

\* The identifiers the if/elif chain compares against.
pm25 == <<112, 109, 50, 53>>

pm10 == <<112, 109, 49, 48>>

o3 == <<111, 51>>

no2 == <<110, 111, 50>>

\* Mutant: the chain compares the identifier as given, without lower().
SelectBreakpoints_CaseSensitive(pollutant) ==
    IF pollutant = pm25 THEN PM25_BREAKPOINTS
    ELSE IF pollutant = pm10 THEN PM10_BREAKPOINTS
    ELSE IF pollutant = o3 THEN O3_8HR_BREAKPOINTS
    ELSE IF pollutant = no2 THEN NO2_BREAKPOINTS
    ELSE <<>>

\* The if/elif chain on pollutant.lower(); <<>> stands for the else branch,
\* which raises.
SelectBreakpoints(pollutant) ==
    LET p == lower(pollutant)
    IN  IF p = pm25 THEN PM25_BREAKPOINTS
        ELSE IF p = pm10 THEN PM10_BREAKPOINTS
        ELSE IF p = o3 THEN O3_8HR_BREAKPOINTS
        ELSE IF p = no2 THEN NO2_BREAKPOINTS
        ELSE <<>>

\* Whether the chain selects a table (it raises ValueError otherwise).
IsKnown(pollutant) == SelectBreakpoints(pollutant) # <<>>

\* Mutant: a negative concentration is looked up as it is.
Clamp_Missing(concentration) == concentration

\* if concentration < 0: concentration = 0
Clamp(concentration) == IF concentration < 0 THEN 0 ELSE concentration

\* bp_low <= concentration <= bp_high
InRow(row, c) == row[1] <= c /\ c <= row[2]

\* The float of a concentration written in ten-thousandths.
ToFloat(c) == FromDecimal(c, 10000)

\* Mutant: (bp_low - concentration) for (concentration - bp_low).
Interpolate_SwappedOperands(row, c) ==
    LET slope == FDiv(FromInt(row[4] - row[3]), FSub(ToFloat(row[2]), ToFloat(row[1])))
    IN  FRound(FAdd(FMul(slope, FSub(ToFloat(row[1]), ToFloat(c))), FromInt(row[3])), 1)

\* Mutant: the slope is an integer division, (i_high - i_low) // (bp_high - bp_low).
Interpolate_IntegerSlope(row, c) ==
    ((row[4] - row[3]) \div (row[2] - row[1])) * (c - row[1]) + row[3]

\* Mutant: int() for round(): the fraction is dropped.
Interpolate_Truncated(row, c) ==
    ((row[4] - row[3]) * (c - row[1])) \div (row[2] - row[1]) + row[3]

\* aqi = ((i_high - i_low) / (bp_high - bp_low)) * (concentration - bp_low) + i_low
\* and round(aqi), in float arithmetic.
Interpolate(row, c) ==
    LET slope == FDiv(FromInt(row[4] - row[3]), FSub(ToFloat(row[2]), ToFloat(row[1])))
    IN  FRound(FAdd(FMul(slope, FSub(ToFloat(c), ToFloat(row[1]))), FromInt(row[3])), 1)

\* round(concentration, 1): the tenth of the unit nearest to the float.
RoundConcentration(c) == FRound(ToFloat(c), 10) * 1000

\* The return of the first row of the for loop that contains c.
RowResult(row, c, pollutant) ==
    [aqi |-> Interpolate(row, c),
     category |-> row[5],
     color |-> row[6],
     concentration |-> RoundConcentration(c),
     pollutant |-> upper(pollutant)]

\* Mutant: above the table the result is the top of the table's last row.
SaturatedResult_LastRow(c, pollutant) ==
    LET bp == SelectBreakpoints(pollutant)
    IN  [aqi |-> bp[Len(bp)][4],
         category |-> bp[Len(bp)][5],
         color |-> bp[Len(bp)][6],
         concentration |-> RoundConcentration(c),
         pollutant |-> upper(pollutant)]

\* The return after the loop: no row contains c.
SaturatedResult(c, pollutant) ==
    [aqi |-> 500,
     category |-> "Hazardous",
     color |-> "#7E0023",
     concentration |-> RoundConcentration(c),
     pollutant |-> upper(pollutant)]

\* The indices of the rows the loop's condition accepts.
MatchingRows(breakpoints, c) ==
    {i \in 1..Len(breakpoints) : InRow(breakpoints[i], c)}

\* The first index the loop reaches among a non-empty set of indices.
FirstRow(S) == CHOOSE i \in S : \A j \in S : i <= j

calculate_aqi(concentration, pollutant) ==
    IF ~IsKnown(pollutant)
    THEN [kind |-> "raise", error |-> "ValueError"]
    ELSE LET breakpoints == SelectBreakpoints(pollutant)
             c == Clamp(concentration)
             m == MatchingRows(breakpoints, c)
         IN  [kind |-> "return",
              value |-> IF m # {}
                        THEN RowResult(breakpoints[FirstRow(m)], c, pollutant)
                        ELSE SaturatedResult(c, pollutant)]

(***************************************************************************)
(* Inputs of calculate_aqi                                                 *)
(***************************************************************************)

\* For a table: every row's two bounds and a point inside it, a point in the
\* gap after each row but the last, and a point just above the table.
TablePoints(bp) ==
    UNION {{bp[i][1], bp[i][2], bp[i][1] + (bp[i][2] - bp[i][1]) \div 3} : i \in 1..Len(bp)}
    \cup {bp[i][2] + (bp[i + 1][1] - bp[i][2]) \div 4 : i \in 1..(Len(bp) - 1)}
    \cup {bp[Len(bp)][2] + 1}

\* -5.0, -0.0001, 0, 28.4 (the docstring's example), 10000.0; 0.05, 0.15,
\* 0.25, 12.05 and 35.45, halfway between two tenths, and 1.08, whose PM2.5
\* index is halfway between 4 and 5; and the points of the four tables.
\* Every concentration is tried on every pollutant.
Concentrations ==
    {-50000, -1, 0, 284000, 100000000, 500, 1500, 2500, 120500, 354500, 10800}
    \cup TablePoints(PM25_BREAKPOINTS) \cup TablePoints(PM10_BREAKPOINTS)
    \cup TablePoints(O3_8HR_BREAKPOINTS) \cup TablePoints(NO2_BREAKPOINTS)

\* "pm25" "PM25" "Pm25" "pm10" "PM10" "o3" "O3" "no2" "No2" "so2" "SO2" "co"
\* "pm2.5" "" "pm"
PollutantIds ==
    {pm25, <<80, 77, 50, 53>>, <<80, 109, 50, 53>>,
     pm10, <<80, 77, 49, 48>>,
     o3, <<79, 51>>,
     no2, <<78, 111, 50>>,
     <<115, 111, 50>>, <<83, 79, 50>>, <<99, 111>>,
     <<112, 109, 50, 46, 53>>, <<>>, <<112, 109>>}

NotCalled == [kind |-> "none"]

InitAqi ==
    /\ pc = "call"
    /\ args \in [op : {"calculate_aqi"}, concentration : Concentrations,
                 pollutant : PollutantIds]
    /\ ret = NotCalled
    /\ NoAgent

CalculateAqi ==
    /\ pc = "call"
    /\ args.op = "calculate_aqi"
    /\ ret' = calculate_aqi(args.concentration, args.pollutant)
    /\ pc' = "done"
    /\ UNCHANGED <<args, agentVars>>

SpecAqi == InitAqi /\ [][CalculateAqi]_vars

(***************************************************************************)
(* svc/nowcast.py                                                          *)
(***************************************************************************)

\* Optional[float]: None is <<>>, the number v (in tenths) is <<v>>.
None == <<>>

Some(v) == <<v>>

\* hourly_values[-k:]
LastK(s, k) == IF Len(s) <= k THEN s ELSE SubSeq(s, Len(s) - k + 1, Len(s))

\* Mutant: the head of the list, hourly_values[:12], for its tail.
Window_Oldest(hourly_values) ==
    IF Len(hourly_values) <= 12 THEN hourly_values ELSE SubSeq(hourly_values, 1, 12)

\* values = hourly_values[-12:]
Window(hourly_values) == LastK(hourly_values, 12)

\* Mutant: the 2-of-3 requirement is counted over the whole window.
RecentThree_WholeWindow(values) == values

\* recent_three = values[-3:]
RecentThree(values) == LastK(values, 3)

\* sum(1 for v in s if v is not None)
CountValid(s) == Cardinality({i \in 1..Len(s) : s[i] # None})

\* [v for v in values if v is not None], as the set of its numbers: only
\* its length (CountValid), min and max are read.
ValidValues(values) == {values[i][1] : i \in {j \in 1..Len(values) : values[j] # None}}

Min(S) == CHOOSE x \in S : \A y \in S : x <= y

Max(S) == CHOOSE x \in S : \A y \in S : x >= y

\* The float of a reading written in tenths.
ReadingFloat(v) == FromDecimal(v, 10)

\* Mutant: the weight is not raised to 0.5.
Weight_Unclamped(min_val, max_val) ==
    IF max_val > 0 THEN FDiv(ReadingFloat(min_val), ReadingFloat(max_val))
    ELSE FromInt(1)

\* w = min_val / max_val if max_val > 0 else 1.0; if w < 0.5: w = 0.5
Weight(min_val, max_val) ==
    CHOOSE val \in {(IF FCmp(w, FromDecimal(5, 10)) < 0 THEN FromDecimal(5, 10) ELSE w) :
                       w \in {IF max_val > 0
                              THEN FDiv(ReadingFloat(min_val), ReadingFloat(max_val))
                              ELSE FromInt(1)}} : TRUE

\* The readings of the inputs below: None, -0.3, 0.0, 0.6 and 0.9 ug/m3.
\* 0.6 / 0.9 is a weight that no float holds exactly, and the average of
\* -0.3 and 0.0 lies halfway between two tenths.
ReadingValues == {None, Some(-3), Some(0), Some(6), Some(9)}

\* w ** i for the weights w that two of these readings give and the
\* positions i of a window, each power computed once and kept.
WeightPowers ==
    {[w |-> w, i |-> i, weight_power |-> FPow(w, i)] :
        w \in {Weight(p[1][1], p[2][1]) :
                  p \in {q \in (ReadingValues \ {None}) \X (ReadingValues \ {None}) :
                            q[1][1] <= q[2][1]}},
        i \in 0..11}

\* Mutant: the newest reading gets w ** 0 and the oldest the highest power.
WeightPower_NewestFirst(w, i, n) ==
    IF \E p \in WeightPowers : p.w = w /\ p.i = n - 1 - i
    THEN (CHOOSE p \in WeightPowers : p.w = w /\ p.i = n - 1 - i).weight_power
    ELSE FPow(w, n - 1 - i)

\* weight_power = w ** i for the 0-based position i of the loop over the n
\* values: one of the powers kept, or computed.
WeightPower(w, i, n) ==
    IF \E p \in WeightPowers : p.w = w /\ p.i = i
    THEN (CHOOSE p \in WeightPowers : p.w = w /\ p.i = i).weight_power
    ELSE FPow(w, i)

\* One round of the loop, for the value at position k (1-based): a missing
\* value leaves numerator and denominator alone, another adds
\* value * weight_power and weight_power.
Round(values, w, k, sums) ==
    IF values[k] = None THEN sums
    ELSE CHOOSE val \in {[numerator |-> FAdd(sums.numerator,
                                             FMul(ReadingFloat(values[k][1]), weight_power)),
                          denominator |-> FAdd(sums.denominator, weight_power)] :
                            weight_power \in {WeightPower(w, k - 1, Len(values))}} : TRUE

\* numerator and denominator after the rounds lo..hi of the loop, from
\* their values before them.
RECURSIVE Rounds(_, _, _, _, _)
Rounds(values, w, lo, hi, sums) ==
    IF lo > hi THEN sums
    ELSE IF lo = hi THEN Round(values, w, lo, sums)
    ELSE CHOOSE val \in {Rounds(values, w, (lo + hi) \div 2 + 1, hi, first) :
                            first \in {Rounds(values, w, lo, (lo + hi) \div 2, sums)}} : TRUE

\* numerator = 0.0, denominator = 0.0, and the loop over enumerate(values)
Loop(values, w) ==
    Rounds(values, w, 1, Len(values), [numerator |-> FromInt(0), denominator |-> FromInt(0)])

Numerator(values, w) == Loop(values, w).numerator

\* Mutant: the sum is divided by the number of non-missing readings instead
\* of the sum of the weights.
Denominator_Count(values, w) ==
    FromInt(Cardinality({i \in 1..Len(values) : values[i] # None}))

Denominator(values, w) == Loop(values, w).denominator

\* Mutant: the guard refuses two readings as well, len(hourly_values) <= 2.
TooShort_AtMostTwo(hourly_values) == Len(hourly_values) <= 2

\* not hourly_values or len(hourly_values) < 2
TooShort(hourly_values) == Len(hourly_values) < 2

calculate_nowcast_pm25(hourly_values) ==
    IF TooShort(hourly_values) THEN None
    ELSE LET values == Window(hourly_values)
         IN  IF CountValid(RecentThree(values)) < 2 THEN None
             ELSE IF CountValid(values) < 2 THEN None
             ELSE CHOOSE val \in
                      {CHOOSE nowcast \in
                          {(IF FCmp(denominator, FromInt(0)) = 0 THEN None
                            ELSE Some(FRound(FDiv(Numerator(values, w), denominator), 10))) :
                              denominator \in {Denominator(values, w)}} : TRUE :
                          w \in {Weight(Min(ValidValues(values)),
                                        Max(ValidValues(values)))}} : TRUE

(***************************************************************************)
(* Inputs of calculate_nowcast_pm25                                        *)
(***************************************************************************)

\* The readings older than the most recent ones repeat one reading.
MaxOlder == 10

\* The most recent readings are arbitrary.
MaxRecent == 3

SeqsUpTo(S, n) == UNION {[1..k -> S] : k \in 0..n}

HourlySeries ==
    {[i \in 1..k |-> v] \o recent :
        k \in 0..MaxOlder, v \in ReadingValues, recent \in SeqsUpTo(ReadingValues, MaxRecent)}

InitNowcast ==
    /\ pc = "call"
    /\ args \in [op : {"calculate_nowcast_pm25"}, hourly_values : HourlySeries]
    /\ ret = NotCalled
    /\ NoAgent

CalculateNowcast ==
    /\ pc = "call"
    /\ args.op = "calculate_nowcast_pm25"
    /\ ret' = [kind |-> "return", value |-> calculate_nowcast_pm25(args.hourly_values)]
    /\ pc' = "done"
    /\ UNCHANGED <<args, agentVars>>

SpecNowcast == InitNowcast /\ [][CalculateNowcast]_vars

(***************************************************************************)
(* svc/aqi_epa.py: get_dominant_pollutant                                  *)
(*                                                                         *)
(* The argument is None, <<"None">>, or a dict, <<"dict", items>>, whose   *)
(* items are the <<key, data>> pairs in insertion order (the order         *)
(* .items() yields).  A data value is a record (a dict) or, for None and   *)
(* the empty dict, the empty function <<>>.  The returned names and data   *)
(* are Optional: None is <<>>, x is <<x>>.                                 *)
(***************************************************************************)

NoneArg == <<"None">>

Dict(items) == <<"dict", items>>

IsDict(pollutants) == pollutants[1] = "dict"

Items(pollutants) == pollutants[2]

\* Mutant: the guard is missing.
Falsy_Never(pollutants) == FALSE

\* not pollutants: None and the empty dict.
Falsy(pollutants) == ~IsDict(pollutants) \/ Items(pollutants) = <<>>

\* Mutant: the running maximum starts at 0.
max_aqi_init_Zero == -1 + 1

\* max_aqi = -1
max_aqi_init == -1

\* The body of the loop on one item:
\* if data and 'aqi' in data and data['aqi'] > max_aqi: ...
DominantStep(acc, item) ==
    LET pollutant == item[1]
        data == item[2]
    IN  IF DOMAIN data # {} /\ "aqi" \in DOMAIN data /\ data.aqi > acc.max_aqi
        THEN [max_aqi |-> data.aqi, dominant |-> Some(pollutant),
              dominant_data |-> Some(data)]
        ELSE acc

\* for pollutant, data in pollutants.items(): ...
RECURSIVE DominantLoop(_, _)
DominantLoop(items, acc) ==
    IF items = <<>> THEN acc
    ELSE DominantLoop(Tail(items), DominantStep(acc, Head(items)))

get_dominant_pollutant(pollutants) ==
    IF Falsy(pollutants)
    THEN [kind |-> "return", value |-> <<None, None>>]
    ELSE IF ~IsDict(pollutants)
    THEN [kind |-> "raise", error |-> "AttributeError"]
    ELSE LET acc == DominantLoop(Items(pollutants),
                        [max_aqi |-> max_aqi_init, dominant |-> None,
                         dominant_data |-> None])
         IN  [kind |-> "return", value |-> <<acc.dominant, acc.dominant_data>>]

(***************************************************************************)
(* Inputs of get_dominant_pollutant                                        *)
(***************************************************************************)

PollutantKeys == {"pm25", "pm10", "o3"}

\* None or {}, a dict without 'aqi', and dicts with an aqi.
DataValues ==
    {<<>>, [category |-> "Good"]} \cup {[aqi |-> a] : a \in {0, 45, 87, 500}}

\* The lists of items with pairwise different keys.
ItemLists ==
    {items \in UNION {[1..n -> PollutantKeys \X DataValues] : n \in 0..Cardinality(PollutantKeys)} :
        \A i, j \in 1..Len(items) : i # j => items[i][1] # items[j][1]}

InitDominant ==
    /\ pc = "call"
    /\ args \in [op : {"get_dominant_pollutant"},
                 pollutants : {NoneArg} \cup {Dict(items) : items \in ItemLists}]
    /\ ret = NotCalled
    /\ NoAgent

GetDominantPollutant ==
    /\ pc = "call"
    /\ args.op = "get_dominant_pollutant"
    /\ ret' = get_dominant_pollutant(args.pollutants)
    /\ pc' = "done"
    /\ UNCHANGED <<args, agentVars>>

SpecDominant == InitDominant /\ [][GetDominantPollutant]_vars

(***************************************************************************)
(* svc/station_selector.py                                                 *)
(*                                                                         *)
(* A station is a record: id, parameters (the list of the parameters'      *)
(* names as ASCII code sequences, a parameter without name reading as      *)
(* ""), and the two timestamp keys lastUpdated and last_updated.  A        *)
(* timestamp is <<>> (the key is missing, None or ""), <<"bad">> (a value  *)
(* fromisoformat() refuses) or <<"iso", t>> (an ISO string for the time    *)
(* t).  Times are integer minutes; datetime.now() is read once for each    *)
(* station scored, and the recency score is in minutes (24 h is 1440).     *)
(***************************************************************************)

so2 == <<115, 111, 50>>

co == <<99, 111>>

POLLUTANT_PRIORITY ==
    (pm25 :> 10) @@ (pm10 :> 9) @@ (o3 :> 8) @@ (no2 :> 7) @@ (so2 :> 6) @@ (co :> 5)

\* Mutant: the name is looked up as given, without lower().
AvailablePollutants_CaseSensitive(parameters) ==
    LET Recognized(n) == n \in DOMAIN POLLUTANT_PRIORITY
    IN  SelectSeq(parameters, Recognized)

\* The loop over parameters: the lower-cased names found in the table, in
\* order, repeated as often as they are listed.
AvailablePollutants(parameters) ==
    LET names == [i \in 1..Len(parameters) |-> lower(parameters[i])]
        Recognized(n) == n \in DOMAIN POLLUTANT_PRIORITY
    IN  SelectSeq(names, Recognized)

\* station.get("lastUpdated") or station.get("last_updated")
LastUpdated(station) ==
    IF station.lastUpdated # <<>> THEN station.lastUpdated ELSE station.last_updated

\* Mutant: 24 - hours_ago without max(0, ...).
TertiaryScore_Unclamped(last_updated, now) ==
    IF last_updated = <<>> THEN 0
    ELSE IF last_updated[1] # "iso" THEN 0
    ELSE 1440 - (now - last_updated[2])

\* tertiary_score: 0 without timestamp or when parsing raises, else
\* max(0, 24 - hours_ago).
TertiaryScore(last_updated, now) ==
    IF last_updated = <<>> THEN 0
    ELSE IF last_updated[1] # "iso" THEN 0
    ELSE LET minutes_ago == now - last_updated[2]
         IN  IF 1440 - minutes_ago > 0 THEN 1440 - minutes_ago ELSE 0

calculate_station_score(station, now) ==
    LET available_pollutants == AvailablePollutants(station.parameters)
    IN  IF available_pollutants = <<>> THEN <<0, 0, 0>>
        ELSE <<Max({POLLUTANT_PRIORITY[available_pollutants[i]] :
                        i \in 1..Len(available_pollutants)}),
               Len(available_pollutants),
               TertiaryScore(LastUpdated(station), now)>>

\* Mutant: the scores are compared on pollutant priority and recency only.
ScoreGreater_IgnoresSecondary(a, b) ==
    \/ a[1] > b[1]
    \/ a[1] = b[1] /\ a[3] > b[3]

\* Python's tuple comparison a > b of two score triples.
ScoreGreater(a, b) ==
    \/ a[1] > b[1]
    \/ a[1] = b[1] /\ a[2] > b[2]
    \/ a[1] = b[1] /\ a[2] = b[2] /\ a[3] > b[3]

\* Mutant: ascending sort followed by a reversal of the list: among equal
\* scores the later one comes first.
SortPosition_ReversedTies(scores, i) ==
    1 + Cardinality({j \in 1..Len(scores) : ScoreGreater(scores[j], scores[i])})
      + Cardinality({j \in 1..Len(scores) : j > i /\ scores[j] = scores[i]})

\* scored_stations.sort(key=lambda x: x[0], reverse=True): the sort is
\* stable, so the element at index i lands after the elements of greater
\* score and after the earlier elements of equal score.
SortPosition(scores, i) ==
    1 + Cardinality({j \in 1..Len(scores) : ScoreGreater(scores[j], scores[i])})
      + Cardinality({j \in 1..Len(scores) : j < i /\ scores[j] = scores[i]})

\* The scores of the stations, station i being scored at the time clock[i].
StationScores(stations, clock) ==
    [i \in 1..Len(stations) |-> calculate_station_score(stations[i], clock[i])]

\* Mutant: the guard refuses a list of one station as well as the empty one.
select_best_station_NoneForOne(stations, clock) ==
    IF Len(stations) < 2 THEN None
    ELSE LET scores == StationScores(stations, clock)
             first == CHOOSE i \in 1..Len(stations) : SortPosition(scores, i) = 1
         IN  Some(stations[first])

select_best_station(stations, clock) ==
    IF stations = <<>> THEN None
    ELSE LET scores == StationScores(stations, clock)
             first == CHOOSE i \in 1..Len(stations) : SortPosition(scores, i) = 1
         IN  Some(stations[first])

(***************************************************************************)
(* Inputs of select_best_station                                           *)
(***************************************************************************)

MaxStations == 3

\* An ISO timestamp for the time t, in minutes from the first clock reading.
Iso(t) == <<"iso", t>>

\* The station kinds tried, <<parameters, lastUpdated, last_updated>>:
\* "pm25" alone with no timestamp, a refused one, 1 hour old and 30 hours
\* old; "PM25" "pm10" "o3" 20 hours old; "pm10" "so2" with last_updated
\* only; "pm25" "pm25" "" with both keys; no parameter; "xyz".
StationKinds ==
    {<< <<pm25>>, <<>>, <<>> >>,
     << <<pm25>>, <<"bad">>, <<>> >>,
     << <<pm25>>, Iso(-60), <<>> >>,
     << <<pm25>>, Iso(-1800), <<>> >>,
     << << <<80, 77, 50, 53>>, pm10, o3 >>, Iso(-1200), <<>> >>,
     << <<pm10, so2>>, <<>>, Iso(-60) >>,
     << <<pm25, pm25, <<>> >>, Iso(-60), Iso(-1200) >>,
     << <<>>, Iso(-60), <<>> >>,
     << << <<120, 121, 122>> >>, Iso(-1200), <<>> >>}

\* The stations of a list of kinds; a station's id is its place in the list.
Stations(kinds) ==
    [i \in 1..Len(kinds) |->
        [id |-> i, parameters |-> kinds[i][1], lastUpdated |-> kinds[i][2],
         last_updated |-> kinds[i][3]]]

\* The clock readings of one call: it does not run backwards, and at most
\* one minute passes during the call.
Clocks(n) == {c \in [1..n -> {0, 1}] : \A i, j \in 1..n : i <= j => c[i] <= c[j]}

InitStation ==
    /\ pc = "call"
    /\ \E n \in 0..MaxStations :
           \E kinds \in [1..n -> StationKinds], c \in Clocks(n) :
               args = [op |-> "select_best_station", stations |-> Stations(kinds), clock |-> c]
    /\ ret = NotCalled
    /\ NoAgent

SelectBestStation ==
    /\ pc = "call"
    /\ args.op = "select_best_station"
    /\ ret' = [kind |-> "return", value |-> select_best_station(args.stations, args.clock)]
    /\ pc' = "done"
    /\ UNCHANGED <<args, agentVars>>

SpecStation == InitStation /\ [][SelectBestStation]_vars

(***************************************************************************)
(* Inputs of calculate_station_score                                       *)
(***************************************************************************)

\* Names as the API spells them: upper case, mixed case, unknown, dotted.
PM25 == <<80, 77, 50, 53>>

Pm10 == <<80, 109, 49, 48>>

No2 == <<78, 111, 50>>

xyz == <<120, 121, 122>>

pm2dot5 == <<112, 109, 50, 46, 53>>

\* The parameter lists tried: empty, one name, a name repeated, names in
\* other cases, names outside the table, a parameter without name ("").
ScoreParameters ==
    {<<>>, <<pm25>>, <<PM25>>, <<pm25, pm25>>, <<pm25, xyz>>, <<xyz>>, << <<>> >>,
     <<co>>, <<co, so2>>, <<No2, co>>, <<o3, pm10, pm25>>, <<pm10, pm10, Pm10>>,
     <<so2, <<>> >>, <<pm2dot5>>}

\* The values of the key lastUpdated: none, refused by fromisoformat(), and
\* ISO times 1 h, 20 h, 24 h and 30 h before the first clock reading and
\* 2 h after it.
LastUpdatedValues == {<<>>, <<"bad">>, Iso(-60), Iso(-1200), Iso(-1440), Iso(-1800), Iso(120)}

\* The values of the key last_updated.
LastUpdatedFallbacks == {<<>>, <<"bad">>, Iso(-90)}

\* datetime.now() at the call, in minutes.
ScoreClock == {0, 45}

ScoreInputs ==
    [op : {"calculate_station_score"},
     station : [id : {1}, parameters : ScoreParameters, lastUpdated : LastUpdatedValues,
                last_updated : LastUpdatedFallbacks],
     now : ScoreClock]

InitScore ==
    /\ pc = "call"
    /\ args \in ScoreInputs
    /\ ret = NotCalled
    /\ NoAgent

CalculateStationScore ==
    /\ pc = "call"
    /\ args.op = "calculate_station_score"
    /\ ret' = [kind |-> "return", value |-> calculate_station_score(args.station, args.now)]
    /\ pc' = "done"
    /\ UNCHANGED <<args, agentVars>>

SpecScore == InitScore /\ [][CalculateStationScore]_vars

(***************************************************************************)
(* One operation called twice with the same arguments.  The arguments do   *)
(* not change between the calls; the clock that datetime.now() reads moves *)
(* on, and other calls may run: the operations keep no state, so another   *)
(* call leaves nothing behind that the second call could read.             *)
(* ret is the list of the calls made, each with the readings of the clock  *)
(* it made: calculate_station_score reads the clock once, and              *)
(* select_best_station once for each station, in list order, the clock     *)
(* moving on between two readings.                                         *)
(***************************************************************************)

\* The result of the call `call` whose successive clock readings are clock.
Call(call, clock) ==
    CASE call.op = "calculate_aqi" -> calculate_aqi(call.concentration, call.pollutant)
      [] call.op = "calculate_nowcast_pm25" ->
             [kind |-> "return", value |-> calculate_nowcast_pm25(call.hourly_values)]
      [] call.op = "get_dominant_pollutant" -> get_dominant_pollutant(call.pollutants)
      [] call.op = "calculate_station_score" ->
             [kind |-> "return", value |-> calculate_station_score(call.station, clock[1])]
      [] call.op = "select_best_station" ->
             [kind |-> "return", value |-> select_best_station(call.stations, clock)]

\* The clock readings, in minutes.
CallTimes == {0, 60, 120}

\* The successive readings of one call: the clock does not go back.
CallClocks == {c \in [1..2 -> CallTimes] : c[1] <= c[2]}

\* The calls repeated: some of the inputs of each operation.  The readings
\* 313.9 and 425.7 at the positions 2 and 3 give 361.3 with the powers that
\* the library computes, and would give 361.4 with the nearest floats.
RepeatedCalls ==
    [op : {"calculate_aqi"}, concentration : {-1, 120250, 284000}, pollutant : {pm25, PM25, xyz}]
    \cup [op : {"calculate_nowcast_pm25"},
          hourly_values : {<<>>, <<Some(100), Some(150)>>, <<Some(100), None, Some(0), Some(150)>>,
                           <<None, None, Some(3139), Some(4257)>>}]
    \cup [op : {"get_dominant_pollutant"},
          pollutants : {NoneArg, Dict(<<>>),
                        Dict(<< <<"pm25", [aqi |-> 87]>>, <<"pm10", [aqi |-> 87]>> >>)}]
    \cup [op : {"calculate_station_score"},
          station : [id : {1}, parameters : {<<>>, <<pm25>>, <<PM25, co>>},
                     lastUpdated : LastUpdatedValues, last_updated : {<<>>}]]
    \cup {[op |-> "select_best_station", stations |-> Stations(kinds)] :
             kinds \in [1..2 -> {<< <<pm25>>, <<>>, <<>> >>,
                                 << <<pm25>>, Iso(-1400), <<>> >>,
                                 << <<pm10, so2>>, <<>>, Iso(-60) >>}]}

InitTwice ==
    /\ pc = "call"
    /\ args \in [op : {"twice"}, call : RepeatedCalls]
    /\ ret = <<>>
    /\ NoAgent

\* The first call, at some time.
FirstCall ==
    /\ pc = "call"
    /\ args.op = "twice"
    /\ \E clock \in CallClocks :
           ret' = <<[at |-> clock, result |-> Call(args.call, clock)]>>
    /\ pc' = "again"
    /\ UNCHANGED <<args, agentVars>>

\* The second call, with the same arguments, after the first has returned.
SecondCall ==
    /\ pc = "again"
    /\ args.op = "twice"
    /\ \E clock \in CallClocks :
           /\ clock[1] >= ret[1].at[2]
           /\ ret' = Append(ret, [at |-> clock, result |-> Call(args.call, clock)])
    /\ pc' = "done"
    /\ UNCHANGED <<args, agentVars>>

SpecTwice == InitTwice /\ [][FirstCall \/ SecondCall]_vars

(***************************************************************************)
(* svc/ai_agent.py: AIrChatAgent.chat, get_agent, chat_with_agent          *)
(*                                                                         *)
(* An agent object is [llm_provider, memories]; memories is the dict       *)
(* session_id -> messages of the ConversationBufferMemory.  The chats are  *)
(* coroutines on one event loop: a chat runs without interruption from     *)
(* chat_with_agent to the await of agent_executor.ainvoke, other chats     *)
(* run while it waits, and it runs again without interruption from the     *)
(* return (or the exception) of ainvoke to its own return.  The text of a  *)
(* chat's message is identified by the number of the chat.  The            *)
(* chat_history handed to ainvoke is recorded with the messages it holds   *)
(* at that moment.                                                         *)
(***************************************************************************)

MaxCalls == 3

Calls == 1..MaxCalls

Sessions == <<"s1", "s2">>

SessionIds == {Sessions[i] : i \in 1..Len(Sessions)}

\* The llm_provider argument: None, the empty string, a provider that
\* _initialize_llm accepts other than the default one, and one it refuses.
Providers == <<None, Some(""), Some("openai"), Some("anthropic")>>

ProviderArgs == {Providers[i] : i \in 1..Len(Providers)}

\* os.getenv("LLM_PROVIDER", "google") with the variable unset.
DefaultProvider == "google"

HumanMessage(content) == [type |-> "human", content |-> content]

AIMessage(content) == [type |-> "ai", content |-> content]

\* _initialize_llm returns an LLM for these providers and raises ValueError
\* for every other one.
Supported(llm_provider) == llm_provider \in {"google", "openai"}

\* AIrChatAgent.__init__: the new object, without memory yet, or the
\* ValueError of _initialize_llm.
AIrChatAgent(llm_provider) ==
    IF Supported(llm_provider)
    THEN [kind |-> "return",
          value |-> [llm_provider |-> llm_provider, memories |-> [s \in {} |-> <<>>]]]
    ELSE [kind |-> "raise", error |-> "ValueError"]

\* _get_or_create_memory: the dict after the call.
get_or_create_memory(memories, session_id) ==
    IF session_id \in DOMAIN memories THEN memories
    ELSE memories @@ (session_id :> <<>>)

\* The truth value of an Optional[str]: None and "" are false.
Truthy(llm_provider) == llm_provider # None /\ llm_provider[1] # ""

\* Whether get_agent constructs a new agent.
Constructs(llm_provider) ==
    \/ agent_instance = 0
    \/ Truthy(llm_provider) /\ agents[agent_instance].llm_provider # llm_provider[1]

\* get_agent: the agents after the call and the place of the one returned;
\* or the error of the constructor, which leaves _agent_instance as it was.
get_agent(llm_provider) ==
    IF Constructs(llm_provider)
    THEN LET provider == IF Truthy(llm_provider) THEN llm_provider[1] ELSE DefaultProvider
             made == AIrChatAgent(provider)
         IN  IF made.kind = "raise" THEN made
             ELSE [kind |-> "return",
                   agents |-> Append(agents, made.value),
                   agent_instance |-> Len(agents) + 1]
    ELSE [kind |-> "return", agents |-> agents, agent_instance |-> agent_instance]

\* Mutant: the line add_ai_message(response["output"]) is not commented out.
add_user_message_AndReply(messages, message) ==
    Append(Append(messages, HumanMessage(message)), AIMessage("output"))

\* memory.chat_memory.add_user_message(message)
add_user_message(messages, message) == Append(messages, HumanMessage(message))

\* Mutant: the message is saved before ainvoke is awaited, so also when it
\* raises.
MessagesAfterInvoke_SavedFirst(messages, message, raised) ==
    add_user_message(messages, message)

\* The session's messages when ainvoke is over: the try block saves the
\* user message after ainvoke returned; an exception saves nothing.
MessagesAfterInvoke(messages, message, raised) ==
    IF raised THEN messages ELSE add_user_message(messages, message)

\* The string chat returns from the except block (its beginning; the text of
\* the exception follows).
Apology == "I apologize, but I encountered an error processing your message."

\* The exceptions that the await of ainvoke is given here, each with the
\* class below BaseException that it derives from: an error of the agent,
\* the cancellation of the task that runs the chat, an interrupt of the
\* process, an exit of the interpreter, and the closing of the coroutine
\* while it waits.
ExceptionBase ==
    [RuntimeError |-> "Exception", CancelledError |-> "BaseException",
     KeyboardInterrupt |-> "BaseException", SystemExit |-> "BaseException",
     GeneratorExit |-> "BaseException"]

\* What the await of ainvoke may raise
InvokeErrors == DOMAIN ExceptionBase

\* except Exception catches the exceptions that derive from Exception, and
\* no other.
CaughtByExcept(error) == ExceptionBase[error] = "Exception"

\* get_memory_summary on the messages of the session: count 0 stands for
\* "No conversation history"; otherwise the number of messages and the last
\* five of them, each with its role.  (A content longer than 100 characters
\* is cut; the contents here are short.)
get_memory_summary(messages) ==
    IF messages = <<>> THEN [count |-> 0, shown |-> <<>>]
    ELSE LET last == LastK(messages, 5)
         IN  [count |-> Len(messages),
              shown |-> [i \in 1..Len(last) |->
                            [role |-> IF last[i].type = "human" THEN "Human" ELSE "AI",
                             content |-> last[i].content]]]

\* The calls: chat_with_agent(message, session_id, llm_provider) and
\* get_memory_summary(session_id) on the global agent.
CallKinds ==
    [i \in 1..(Len(Sessions) * Len(Providers)) |->
        [op |-> "chat_with_agent",
         session_id |-> Sessions[((i - 1) \div Len(Providers)) + 1],
         llm_provider |-> Providers[((i - 1) % Len(Providers)) + 1]]]
    \o [i \in 1..Len(Sessions) |->
           [op |-> "get_memory_summary", session_id |-> Sessions[i], llm_provider |-> None]]

\* A chat that has not started.
NewFrame == [pc |-> "call", agent |-> 0, chat_history |-> <<>>, raised |-> ""]

\* pc is "chat" while calls are in progress; the position of each call is
\* in its frame, with the agent it runs on (0 before get_agent), the
\* chat_history it handed to ainvoke and the exception ainvoke raised.  The
\* calls are interchangeable: they are numbered in the order of CallKinds.
InitChat ==
    /\ pc = "chat"
    /\ \E kind \in [Calls -> 1..Len(CallKinds)] :
           /\ \A c, d \in Calls : c <= d => kind[c] <= kind[d]
           /\ args = [c \in Calls |-> CallKinds[kind[c]]]
    /\ ret = [c \in Calls |-> NotCalled]
    /\ agents = <<>>
    /\ agent_instance = 0
    /\ frame = [c \in Calls |-> NewFrame]

\* The user message of chat c.
Message(c) == c

\* chat_with_agent up to the await: get_agent, _get_or_create_memory, and
\* ainvoke is handed the message and the session's chat_history.  The
\* ValueError of get_agent is raised outside the try block of chat.
StartChat(c) ==
    /\ pc = "chat"
    /\ frame[c].pc = "call"
    /\ args[c].op = "chat_with_agent"
    /\ LET got == get_agent(args[c].llm_provider)
       IN  IF got.kind = "raise"
           THEN /\ ret' = [ret EXCEPT ![c] = got]
                /\ frame' = [frame EXCEPT ![c].pc = "done"]
                /\ UNCHANGED <<agents, agent_instance>>
           ELSE LET agent == got.agent_instance
                    memories == get_or_create_memory(got.agents[agent].memories,
                                                     args[c].session_id)
                IN  /\ agents' = [got.agents EXCEPT ![agent].memories = memories]
                    /\ agent_instance' = agent
                    /\ frame' = [frame EXCEPT ![c] =
                                    [pc |-> "ainvoke", agent |-> agent,
                                     chat_history |-> memories[args[c].session_id],
                                     raised |-> ""]]
                    /\ UNCHANGED ret
    /\ UNCHANGED <<pc, args>>

\* The memory of chat c's session in its agent, after ainvoke.
AfterInvoke(c, raised) ==
    [agents EXCEPT ![frame[c].agent].memories[args[c].session_id] =
        MessagesAfterInvoke(@, Message(c), raised)]

\* ainvoke returns: the user message is saved and the output returned.
InvokeReturns(c) ==
    /\ pc = "chat"
    /\ frame[c].pc = "ainvoke"
    /\ agents' = AfterInvoke(c, FALSE)
    /\ ret' = [ret EXCEPT ![c] = [kind |-> "return", value |-> "output"]]
    /\ frame' = [frame EXCEPT ![c].pc = "done"]
    /\ UNCHANGED <<pc, args, agent_instance>>

\* The await of ainvoke raises: the except block returns the apology for an
\* Exception; any other exception leaves chat and chat_with_agent.
InvokeRaises(c) ==
    /\ pc = "chat"
    /\ frame[c].pc = "ainvoke"
    /\ \E error \in InvokeErrors :
           /\ ret' = [ret EXCEPT ![c] =
                         IF CaughtByExcept(error)
                         THEN [kind |-> "return", value |-> Apology]
                         ELSE [kind |-> "raise", error |-> error]]
           /\ frame' = [frame EXCEPT ![c].pc = "done", ![c].raised = error]
    /\ agents' = AfterInvoke(c, TRUE)
    /\ UNCHANGED <<pc, args, agent_instance>>

\* get_memory_summary(session_id) on the global agent: the session's memory
\* is created if it does not exist, and its messages are summarised.
MemorySummary(c) ==
    /\ pc = "chat"
    /\ frame[c].pc = "call"
    /\ args[c].op = "get_memory_summary"
    /\ agent_instance # 0
    /\ LET memories == get_or_create_memory(agents[agent_instance].memories,
                                            args[c].session_id)
       IN  /\ agents' = [agents EXCEPT ![agent_instance].memories = memories]
           /\ ret' = [ret EXCEPT ![c] =
                         [kind |-> "return",
                          summary |-> get_memory_summary(memories[args[c].session_id])]]
    /\ frame' = [frame EXCEPT ![c].pc = "done", ![c].agent = agent_instance]
    /\ UNCHANGED <<pc, args, agent_instance>>

Start == \E c \in Calls : StartChat(c)

Returns == \E c \in Calls : InvokeReturns(c)

Raises == \E c \in Calls : InvokeRaises(c)

Summarises == \E c \in Calls : MemorySummary(c)

SpecChat == InitChat /\ [][Start \/ Returns \/ Raises \/ Summarises]_vars

Init == InitAqi \/ InitNowcast \/ InitDominant \/ InitStation \/ InitScore \/ InitTwice \/ InitChat

Next ==
    \/ CalculateAqi \/ CalculateNowcast \/ GetDominantPollutant
    \/ SelectBestStation \/ CalculateStationScore
    \/ FirstCall \/ SecondCall
    \/ Start \/ Returns \/ Raises \/ Summarises

Spec == Init /\ [][Next]_vars

(***************************************************************************)
(* Properties of calculate_nowcast_pm25                                    *)
(***************************************************************************)

NowcastDone == pc = "done" /\ args.op = "calculate_nowcast_pm25"

\* The number of non-missing readings among the last three of the input.
RecentPresent(h) ==
    Cardinality({i \in 1..Len(h) : i > Len(h) - 3 /\ h[i] # None})

\* C10: the call returns a value exactly when at least 2 of the 3 most
\* recent readings of the input are non-missing; otherwise (empty input, a
\* single reading, fewer than 2 of the last 3) it returns None; it never
\* raises.
C10_ValueIffTwoOfLastThree ==
    NowcastDone =>
        /\ ret.kind = "return"
        /\ ret.value # None <=> RecentPresent(args.hourly_values) >= 2

\* [10, 10, None, None]: two readings in the window, one among the last
\* three, no result.
C10_Witness ==
    /\ NowcastDone
    /\ args.hourly_values = <<Some(6), Some(6), None, None>>
    /\ ret.value = None

\* The call returned a value: its window reached the weighting step.
NowcastValue == NowcastDone /\ ret.value # None

\* The window of the call, its valid values and its weight.
CallWindow == Window(args.hourly_values)

CallWeight ==
    Weight(Min(ValidValues(CallWindow)), Max(ValidValues(CallWindow)))

\* C11: the weight applied to a non-missing reading is never smaller than
\* the weight applied to an older non-missing reading of the same window.
C11_RecentWeighsMost ==
    NowcastValue =>
        \A i, j \in 1..Len(CallWindow) :
            (i < j /\ CallWindow[i] # None /\ CallWindow[j] # None) =>
                FCmp(WeightPower(CallWeight, i - 1, Len(CallWindow)),
                     WeightPower(CallWeight, j - 1, Len(CallWindow))) <= 0

\* C12: the weight factor of every window that reaches the weighting step
\* satisfies 0.5 <= w <= 1.0.
C12_WeightClamped ==
    NowcastValue =>
        /\ FCmp(FromDecimal(5, 10), CallWeight) <= 0
        /\ FCmp(CallWeight, FromInt(1)) <= 0

\* [-0.3, 0.6]: min/max is negative and the weight is raised to 0.5.
C12_Witness ==
    /\ NowcastValue
    /\ args.hourly_values = <<Some(-3), Some(6)>>
    /\ CallWeight = FromDecimal(5, 10)

\* The last 12 elements of a series of more than 12.
LastTwelve(h) == [i \in 1..12 |-> h[Len(h) - 12 + i]]

\* C13: the result is the result on the last 12 readings alone; replacing
\* the readings older than these by any other reading does not change it.
C13_OnlyLastTwelve ==
    (NowcastDone /\ Len(args.hourly_values) > 12) =>
        /\ ret.value = calculate_nowcast_pm25(LastTwelve(args.hourly_values))
        /\ \A v \in ReadingValues :
               ret.value = calculate_nowcast_pm25(<<v>> \o LastTwelve(args.hourly_values))

\* Thirteen readings, the oldest of them present, and a value returned.
C13_Witness ==
    /\ NowcastValue
    /\ Len(args.hourly_values) = 13
    /\ args.hourly_values[1] # None
    /\ args.hourly_values[1] # args.hourly_values[13]

RECURSIVE Gcd(_, _)
Gcd(a, b) == IF b = 0 THEN a ELSE Gcd(b, a % b)

RECURSIVE Pow(_, _)
Pow(b, e) == IF e = 0 THEN 1 ELSE b * Pow(b, e - 1)

\* The weight of the claim as an exact fraction <<numerator, denominator>>
\* in lowest terms: max(0.5, lo / hi) if hi > 0, else 1.
ExactWeight(lo, hi) ==
    IF hi > 0
    THEN IF 2 * lo < hi THEN <<1, 2>>
         ELSE <<lo \div Gcd(lo, hi), hi \div Gcd(lo, hi)>>
    ELSE <<1, 1>>

\* The sums of value_i * w^i and of w^i over the non-missing positions of s
\* (0 = oldest, missing slots counted), both times wd ^ (Len(s) - 1).
RECURSIVE DecayedSum(_, _)
DecayedSum(s, w) ==
    IF s = <<>> THEN 0
    ELSE (IF s[1] = None THEN 0 ELSE s[1][1] * Pow(w[2], Len(s) - 1))
         + w[1] * DecayedSum(Tail(s), w)

RECURSIVE DecaySum(_, _)
DecaySum(s, w) ==
    IF s = <<>> THEN 0
    ELSE (IF s[1] = None THEN 0 ELSE Pow(w[2], Len(s) - 1))
         + w[1] * DecaySum(Tail(s), w)

\* C14: a returned value is (sum of value_i * w^i) / (sum of w^i) over the
\* non-missing positions of the truncated window, rounded to 1 decimal (it
\* is a tenth nearest to the quotient), with w = max(0.5, minVal / maxVal)
\* if maxVal > 0 else 1.0.
C14_WeightedAverage ==
    NowcastValue =>
        LET w == ExactWeight(Min(ValidValues(CallWindow)), Max(ValidValues(CallWindow)))
            num == DecayedSum(CallWindow, w)
            den == DecaySum(CallWindow, w)
            off == ret.value[1] * den - num
            dist == IF off < 0 THEN -off ELSE off
        IN  /\ den > 0
            /\ 2 * dist <= den

\* [0.6, None, 0.9]: w = 2/3, the missing slot advances the position of 0.9:
\* (0.6 + 0.9 * 4/9) / (1 + 4/9) = 0.69...
C14_Witness ==
    /\ NowcastValue
    /\ args.hourly_values = <<Some(6), None, Some(9)>>
    /\ ret.value = Some(7)

\* Every reading of the series is the value v.
AllEqual(h, v) == \A i \in 1..Len(h) : h[i] = Some(v)

\* C15 as stated: for every input whose readings all equal one value v the
\* call returns v.
C15_ConstantSeries ==
    NowcastDone =>
        \A v \in {-3, 0, 6, 9} :
            (Len(args.hourly_values) >= 1 /\ AllEqual(args.hourly_values, v))
                => ret.value = Some(v)

\* C15 amended: for every input of at least two readings all equal to one
\* value v the call returns v; for a single reading it returns None.
C15_ConstantSeriesOfTwo ==
    NowcastDone =>
        \A v \in {-3, 0, 6, 9} :
            /\ (Len(args.hourly_values) >= 2 /\ AllEqual(args.hourly_values, v))
                   => ret.value = Some(v)
            /\ args.hourly_values = <<Some(v)>> => ret.value = None

C15_Witness ==
    /\ NowcastDone
    /\ args.hourly_values = <<Some(9), Some(9)>>
    /\ ret.value = Some(9)


\* The non-missing readings among the last twelve of the input.
WindowReadings ==
    {args.hourly_values[i][1] :
        i \in {j \in 1..Len(args.hourly_values) :
                  j > Len(args.hourly_values) - 12 /\ args.hourly_values[j] # None}}

\* C29: a value returned by calculate_nowcast_pm25 lies between the least
\* and the greatest non-missing reading of the 12-reading window (readings
\* being whole tenths, the rounding to one decimal does not leave the
\* interval).
C29_WithinWindowRange ==
    NowcastValue =>
        /\ \E x \in WindowReadings : x <= ret.value[1]
        /\ \E y \in WindowReadings : ret.value[1] <= y

\* A window with a negative and a positive reading and unequal weights: the
\* value lies strictly inside the range and is none of the readings.
C29_Witness ==
    /\ NowcastValue
    /\ \E x \in WindowReadings : x < 0
    /\ \E x, y \in WindowReadings : x < ret.value[1] /\ ret.value[1] < y
    /\ ret.value[1] \notin WindowReadings
    /\ CallWeight # FromInt(1)

(***************************************************************************)
(* Properties of get_dominant_pollutant                                    *)
(***************************************************************************)

DominantDone == pc = "done" /\ args.op = "get_dominant_pollutant"

\* Every entry of the mapping carries an aqi.
AllCarryAqi(items) ==
    \A i \in 1..Len(items) : DOMAIN items[i][2] # {} /\ "aqi" \in DOMAIN items[i][2]

\* C16: for a non-empty mapping whose entries all carry an aqi in 0..500 the
\* call returns an entry of the mapping whose aqi is greater than or equal
\* to the aqi of every entry.
C16_DominantIsMaximal ==
    (DominantDone /\ IsDict(args.pollutants) /\ Items(args.pollutants) # <<>>
        /\ AllCarryAqi(Items(args.pollutants))) =>
        LET items == Items(args.pollutants)
        IN  /\ ret.kind = "return"
            /\ \E i \in 1..Len(items) :
                   /\ ret.value = <<Some(items[i][1]), Some(items[i][2])>>
                   /\ \A j \in 1..Len(items) : items[j][2].aqi <= items[i][2].aqi

\* {pm25: aqi 87, pm10: aqi 45} -> pm25.
C16_Witness ==
    /\ DominantDone
    /\ args.pollutants = Dict(<<<<"pm25", [aqi |-> 87]>>, <<"pm10", [aqi |-> 45]>>>>)
    /\ ret.value = <<Some("pm25"), Some([aqi |-> 87])>>

\* The reorderings of a list of items.
Reorderings(items) ==
    {[i \in 1..Len(items) |-> items[q[i]]] :
        q \in {f \in [1..Len(items) -> 1..Len(items)] :
                  \A i, j \in 1..Len(items) : i # j => f[i] # f[j]}}

\* C17: two mappings holding the same entries, built in different insertion
\* orders, give the same dominant pollutant, also when several pollutants
\* share the greatest aqi.
C17_OrderIndependent ==
    (DominantDone /\ IsDict(args.pollutants)) =>
        \A other \in Reorderings(Items(args.pollutants)) :
            get_dominant_pollutant(Dict(other)).value[1] = ret.value[1]

\* C18: on an empty mapping or None the call returns (None, None) and does
\* not raise.
C18_EmptyIsNoResult ==
    (DominantDone /\ (args.pollutants = NoneArg \/ args.pollutants = Dict(<<>>))) =>
        ret = [kind |-> "return", value |-> <<None, None>>]

C18_Witness ==
    /\ DominantDone
    /\ args.pollutants = NoneArg
    /\ ret.kind = "return"
    /\ ret.value = <<None, None>>

(***************************************************************************)
(* Properties of select_best_station                                       *)
(***************************************************************************)

SelectDone == pc = "done" /\ args.op = "select_best_station"

\* The scores the call computed for its candidates.
CallScores == StationScores(args.stations, args.clock)

\* The places in the list of the station the call returned.
ReturnedAt == {i \in 1..Len(args.stations) : ret.value = Some(args.stations[i])}

\* a is lexicographically at least b, field by field.
LexAtLeast(a, b) ==
    IF a[1] # b[1] THEN a[1] > b[1]
    ELSE IF a[2] # b[2] THEN a[2] > b[2]
    ELSE a[3] >= b[3]

\* C19: of a non-empty list select_best_station returns a candidate whose
\* score triple (primary, secondary, tertiary) is lexicographically greatest
\* among all candidates: no candidate has a higher primary, none with the
\* same primary a higher secondary, whatever the recency.
C19_LexicographicallyGreatest ==
    (SelectDone /\ args.stations # <<>>) =>
        /\ ret.kind = "return"
        /\ ReturnedAt # {}
        /\ \A i \in ReturnedAt : \A j \in 1..Len(args.stations) :
               /\ LexAtLeast(CallScores[i], CallScores[j])
               /\ CallScores[i][1] >= CallScores[j][1]
               /\ CallScores[i][1] = CallScores[j][1] =>
                      CallScores[i][2] >= CallScores[j][2]

\* A PM2.5-only station updated 1 hour ago, listed first, is outranked by a
\* PM2.5+PM10+O3 station updated 20 hours ago.
C19_Witness ==
    /\ SelectDone
    /\ Len(args.stations) = 2
    /\ AvailablePollutants(args.stations[1].parameters) = <<pm25>>
    /\ AvailablePollutants(args.stations[2].parameters) = <<pm25, pm10, o3>>
    /\ CallScores[1][1] = CallScores[2][1]
    /\ CallScores[1][3] > 1320
    /\ CallScores[2][3] <= 240
    /\ ret.value = Some(args.stations[2])

\* The candidates that tie with candidate i on all three score fields.
TiedWith(i) == {j \in 1..Len(args.stations) : CallScores[j] = CallScores[i]}

\* C20: when several candidates tie on all three score fields, the one
\* returned is the first of them in the input list, for every list order:
\* no earlier candidate has the score triple of the returned station.
C20_FirstOfTiedReturned ==
    (SelectDone /\ args.stations # <<>>) =>
        /\ ReturnedAt # {}
        /\ \A i \in ReturnedAt : \A j \in TiedWith(i) : i <= j

\* Three stations tie for the best score, with differing fields, and the
\* first in the list is returned.
C20_Witness ==
    /\ SelectDone
    /\ Len(args.stations) = 3
    /\ TiedWith(1) = {1, 2, 3}
    /\ args.stations[1].lastUpdated # args.stations[2].lastUpdated
    /\ args.stations[2].lastUpdated # args.stations[3].lastUpdated
    /\ args.stations[1].lastUpdated # args.stations[3].lastUpdated
    /\ CallScores[1][1] > 0
    /\ ret.value = Some(args.stations[1])

\* C24: over an empty list select_best_station returns None and raises
\* nothing; over a non-empty list it returns one of the stations of the
\* list, never None.
C24_NoneOnlyForEmptyList ==
    SelectDone =>
        /\ ret.kind = "return"
        /\ args.stations = <<>> => ret.value = None
        /\ args.stations # <<>> =>
               /\ ret.value # None
               /\ \E i \in 1..Len(args.stations) : ret.value = Some(args.stations[i])

\* A single station that offers no recognized pollutant, scored (0, 0, 0),
\* is still returned.
C24_Witness ==
    /\ SelectDone
    /\ Len(args.stations) = 1
    /\ CallScores[1] = <<0, 0, 0>>
    /\ ret.value = Some(args.stations[1])

(***************************************************************************)
(* Properties of calculate_aqi                                             *)
(***************************************************************************)

\* The call of this state returned a result (it did not raise).
Returned == pc = "done" /\ args.op = "calculate_aqi" /\ ret.kind = "return"

\* The table of the call's pollutant, and the concentration the loop looks up.
Bp == SelectBreakpoints(args.pollutant)

Looked == IF args.concentration < 0 THEN 0 ELSE args.concentration

TableHigh(bp) == bp[Len(bp)][2]

\* s and t are equal up to the case of their ASCII letters.
SameLetter(a, b) ==
    \/ a = b
    \/ a >= 65 /\ a <= 90 /\ b = a + 32
    \/ b >= 65 /\ b <= 90 /\ a = b + 32

EqualIgnoringCase(s, t) ==
    Len(s) = Len(t) /\ \A i \in 1..Len(s) : SameLetter(s[i], t[i])

InClosedSet(pollutant) ==
    \E k \in {pm25, pm10, o3, no2} : EqualIgnoringCase(pollutant, k)

\* C1: for every pollutant of the closed set and every concentration
\* (negative, inside a row, between rows, above the table) the returned aqi
\* is an integer with 0 <= aqi <= 500.
C1_AqiWithinRange ==
    Returned => ret.value.aqi \in 0..500

C1_Witness ==
    /\ Returned
    /\ args.concentration = TableHigh(Bp)
    /\ ret.value.aqi = Bp[Len(Bp)][4]

\* C2: consecutive rows of each table are contiguous in AQI space and in
\* concentration space, so every concentration between the first row's low
\* bound and the last row's high bound lies in exactly one row.
C2_RowsContiguous ==
    Returned =>
        /\ \A i \in 1..(Len(Bp) - 1) : Bp[i][4] + 1 = Bp[i + 1][3]
        /\ (Bp[1][1] <= Looked /\ Looked <= TableHigh(Bp))
               => Cardinality(MatchingRows(Bp, Looked)) = 1

\* C3: the saturated result is returned only above the table; for every
\* concentration from 0 to the highest concentrationHigh the result is the
\* interpolated result of a row whose interval contains it.
C3_SaturatedOnlyAboveTable ==
    (Returned /\ Looked <= TableHigh(Bp)) =>
        \E i \in 1..Len(Bp) :
            /\ InRow(Bp[i], Looked)
            /\ ret.value = RowResult(Bp[i], Looked, args.pollutant)

\* C4: for every pollutant of the closed set and every concentration above
\* the highest concentrationHigh of its table, the call returns aqi 500,
\* category "Hazardous" and color #7E0023; it does not raise.
C4_SaturatesAboveTable ==
    (pc = "done" /\ args.op = "calculate_aqi" /\ InClosedSet(args.pollutant)
        /\ args.concentration > TableHigh(Bp)) =>
        /\ ret.kind = "return"
        /\ ret.value.aqi = 500
        /\ ret.value.category = "Hazardous"
        /\ ret.value.color = "#7E0023"

C4_Witness ==
    /\ Returned
    /\ lower(args.pollutant) = o3
    /\ args.concentration = TableHigh(Bp) + 1
    /\ ret.value.aqi = 500

\* C5: for every pollutant of the closed set and every negative
\* concentration the call returns, and its result (aqi, category, color,
\* reported concentration, pollutant) is that of the same call on 0.
C5_NegativeIsZero ==
    (pc = "done" /\ args.op = "calculate_aqi" /\ InClosedSet(args.pollutant)
        /\ args.concentration < 0) =>
        /\ ret.kind = "return"
        /\ ret = calculate_aqi(0, args.pollutant)

C5_Witness ==
    /\ Returned
    /\ args.concentration = -50000
    /\ ret.value.aqi = 0
    /\ ret.value.concentration = 0

\* C6: a concentration equal to a row's concentrationHigh yields the row's
\* aqiHigh and category; one equal to a row's concentrationLow yields the
\* row's aqiLow.
C6_ExactBoundaries ==
    Returned =>
        \A i \in 1..Len(Bp) :
            /\ Looked = Bp[i][2] =>
                   ret.value.aqi = Bp[i][4] /\ ret.value.category = Bp[i][5]
            /\ Looked = Bp[i][1] => ret.value.aqi = Bp[i][3]

C6_Witness ==
    /\ Returned
    /\ args.pollutant = pm25
    /\ args.concentration = 354000
    /\ ret.value.aqi = 100
    /\ ret.value.category = "Moderate"

\* C7: for a concentration inside a row the aqi is the linear interpolation
\* of the first such row, rounded to an integer (an integer nearest to the
\* exact value of the formula), with that row's category and color.
C7_Interpolation ==
    (Returned /\ MatchingRows(Bp, Looked) # {}) =>
        LET row == Bp[FirstRow(MatchingRows(Bp, Looked))]
            den == row[2] - row[1]
            off == (ret.value.aqi - row[3]) * den - (row[4] - row[3]) * (Looked - row[1])
            dist == IF off < 0 THEN -off ELSE off
        IN  /\ 2 * dist <= den
            /\ ret.value.category = row[5]
            /\ ret.value.color = row[6]

C7_Witness ==
    /\ Returned
    /\ args.pollutant = pm25
    /\ args.concentration = 284000
    /\ ret.value.aqi = 85
    /\ ret.value.category = "Moderate"

\* The AQI values covered by the rows of a table.
AqiCovered(bp) == UNION {bp[i][3]..bp[i][4] : i \in 1..Len(bp)}

\* C8 as stated: in every table, O3 included, the first row starts at aqi 0,
\* the last row ends at aqi 500 and every AQI value from 0 to 500 is covered.
C8_FullScale ==
    Returned =>
        /\ Bp[1][3] = 0
        /\ Bp[Len(Bp)][4] = 500
        /\ AqiCovered(Bp) = 0..500

\* C8 amended: in every table the first row starts at aqi 0 and consecutive
\* rows chain without gap; the PM2.5, PM10 and NO2 tables end at aqi 500
\* and cover 0..500, the O3 8-hour table ends at aqi 300 and covers 0..300.
C8_ScalePerTable ==
    Returned =>
        LET top == IF lower(args.pollutant) = o3 THEN 300 ELSE 500
        IN  /\ Bp[1][3] = 0
            /\ \A i \in 1..(Len(Bp) - 1) : Bp[i][4] + 1 = Bp[i + 1][3]
            /\ Bp[Len(Bp)][4] = top
            /\ AqiCovered(Bp) = 0..top

C8_Witness ==
    /\ Returned
    /\ lower(args.pollutant) = o3
    /\ args.concentration = 2000
    /\ ret.value.aqi = 300

\* C9: the call raises ValueError exactly for the identifiers outside
\* {pm25, pm10, o3, no2} compared without regard to case, whatever the
\* concentration; for identifiers inside the set it returns.
C9_UnknownPollutant ==
    (pc = "done" /\ args.op = "calculate_aqi") =>
        IF InClosedSet(args.pollutant)
        THEN ret.kind = "return"
        ELSE ret = [kind |-> "raise", error |-> "ValueError"]

\* "SO2" is refused and, in another call, "PM25" is accepted.
C9_Witness ==
    /\ pc = "done"
    /\ args.op = "calculate_aqi"
    /\ \/ args.pollutant = <<83, 79, 50>> /\ ret.kind = "raise"
       \/ args.pollutant = <<80, 77, 50, 53>> /\ ret.kind = "return"

\* C30: calculate_aqi is monotone non-decreasing in the concentration, for
\* each pollutant: a concentration that is not greater has an AQI that is
\* not greater, also between two rows of the table and above it.
C30_MonotoneInConcentration ==
    Returned =>
        \A c1 \in Concentrations :
            c1 <= args.concentration =>
                calculate_aqi(c1, args.pollutant).value.aqi <= ret.value.aqi

(***************************************************************************)
(* Properties of calculate_station_score                                   *)
(***************************************************************************)

ScoreDone == pc = "done" /\ args.op = "calculate_station_score"

\* The timestamp the station carries: lastUpdated, or last_updated when
\* lastUpdated is absent.
GivenTimestamp ==
    IF args.station.lastUpdated = <<>> THEN args.station.last_updated
    ELSE args.station.lastUpdated

\* The timestamp parses.
TimestampParses == GivenTimestamp # <<>> /\ GivenTimestamp[1] = "iso"

\* max(0, 24 h - time since the timestamp), in minutes.
RecencyBonus ==
    LET since == args.now - GivenTimestamp[2]
    IN  IF since >= 1440 THEN 0 ELSE 1440 - since

\* The names of the priority table the station offers, in any case.
RecognizedOffered ==
    {k \in DOMAIN POLLUTANT_PRIORITY :
        \E i \in 1..Len(args.station.parameters) :
            EqualIgnoringCase(args.station.parameters[i], k)}

\* C21 as stated: the tertiary field is max(0, 24 - hoursSinceLastUpdated)
\* when the timestamp parses and 0 when it is missing or unparsable, for
\* every station, whatever pollutants it offers.
C21_TertiaryIsRecency ==
    ScoreDone =>
        /\ ret.kind = "return"
        /\ ret.value[3] = IF TimestampParses THEN RecencyBonus ELSE 0

\* C21 amended: the same for every station that offers at least one
\* pollutant of the priority table; a station that offers none scores
\* (0, 0, 0) whatever its timestamp.
C21_TertiaryIsRecencyIfRecognized ==
    ScoreDone =>
        /\ ret.kind = "return"
        /\ RecognizedOffered # {} =>
               ret.value[3] = IF TimestampParses THEN RecencyBonus ELSE 0
        /\ RecognizedOffered = {} => ret.value = <<0, 0, 0>>

\* A station offering a recognized pollutant whose timestamp parses and is
\* more than 24 hours old at the call: the bonus is cut off at 0.
C21_Witness ==
    /\ ScoreDone
    /\ RecognizedOffered # {}
    /\ TimestampParses
    /\ args.now - GivenTimestamp[2] > 1440
    /\ ret.value[3] = 0

\* C22: the secondary field is the number of recognized pollutants the
\* station offers, the size of the set of distinct priority-table pollutants:
\* a pollutant listed more than once, or one outside the table, does not
\* change it.
C22_SecondaryCountsDistinct ==
    ScoreDone => ret.value[2] = Cardinality(RecognizedOffered)

\* The priority values as the documentation lists them.
ListedPriority(k) ==
    CASE k = pm25 -> 10
      [] k = pm10 -> 9
      [] k = o3 -> 8
      [] k = no2 -> 7
      [] k = so2 -> 6
      [] k = co -> 5

\* C23: the primary field is the greatest priority value (PM2.5 10, PM10 9,
\* O3 8, NO2 7, SO2 6, CO 5) among the pollutants of the station that the
\* table recognizes, names compared without regard to case, and 0 when the
\* station offers no recognized pollutant.
C23_PrimaryIsMaxPriority ==
    ScoreDone =>
        /\ ret.kind = "return"
        /\ ret.value[1] = IF RecognizedOffered = {} THEN 0
                          ELSE Max({ListedPriority(k) : k \in RecognizedOffered})

\* "No2" and "co" are offered: the primary field is NO2's 7.
C23_Witness ==
    /\ ScoreDone
    /\ args.station.parameters = <<No2, co>>
    /\ RecognizedOffered = {no2, co}
    /\ ret.value[1] = 7

(***************************************************************************)
(* Properties of repeated calls                                            *)
(***************************************************************************)

\* C25: every core operation is a pure, stateless function of its inputs:
\* called twice with equal arguments, calculate_aqi, calculate_nowcast_pm25,
\* get_dominant_pollutant, calculate_station_score and select_best_station
\* return equal results, whatever happens between the two calls (other
\* calls, or time passing).
C25_EqualArgumentsEqualResults ==
    (pc = "done" /\ args.op = "twice") => ret[1].result = ret[2].result

(***************************************************************************)
(* Properties of AIrChatAgent.chat and chat_with_agent                     *)
(***************************************************************************)

\* The messages agent a of the heap holds for session s (none when the
\* agent or the session's memory does not exist).
Messages(heap, a, s) ==
    IF a <= Len(heap) /\ s \in DOMAIN heap[a].memories THEN heap[a].memories[s]
    ELSE <<>>

\* In this step chat c reaches the await of ainvoke.
StartsNow(c) == frame[c].pc = "call" /\ frame'[c].pc = "ainvoke"

\* In this step chat c finishes with the agent's output.
SucceedsNow(c) ==
    frame[c].pc = "ainvoke" /\ frame'[c].pc = "done" /\ ret'[c] = [kind |-> "return", value |-> "output"]

\* In this step the agent invocation of chat c fails.
FailsNow(c) ==
    frame[c].pc = "ainvoke" /\ frame'[c].pc = "done" /\ ret'[c] # [kind |-> "return", value |-> "output"]

\* What a step may do to the messages of session s in agent a: a chat on
\* that agent and session that succeeds in the step appends its user
\* message, and nothing else changes them.
SessionStep(a, s) ==
    LET saved == {c \in Calls : SucceedsNow(c) /\ frame[c].agent = a /\ args[c].session_id = s}
    IN  IF saved = {} THEN Messages(agents', a, s) = Messages(agents, a, s)
        ELSE \E c \in saved :
                 Messages(agents', a, s) = Append(Messages(agents, a, s), HumanMessage(Message(c)))

\* C26: through any interleaving of chats on several sessions, the memory of
\* a session holds exactly the user messages of the chats on it whose agent
\* invocation succeeded, in the order they completed: it starts empty, each
\* success appends the chat's user message to its own session and to no
\* other, nothing else is ever added or removed (no AI reply), and the
\* history a chat hands to the agent is that of its own session.
C26_SessionMemoryIsItsSuccessfulChats ==
    [][/\ \A a \in 1..Len(agents'), s \in SessionIds : SessionStep(a, s)
       /\ \A c \in Calls : StartsNow(c) =>
              frame'[c].chat_history =
                  Messages(agents, frame'[c].agent, args[c].session_id)]_vars

\* Two chats on session "s1" succeeded, the later one first, and a chat on
\* "s2" failed: the memory of "s1" holds the two messages in the order of
\* completion and that of "s2" is empty.
C26_Witness ==
    /\ pc = "chat"
    /\ \A c \in Calls : frame[c].pc = "done"
    /\ \E c, d, e \in Calls :
          /\ c < d
          /\ args[c].session_id = "s1" /\ args[d].session_id = "s1"
          /\ args[e].session_id = "s2"
          /\ ret[e] = [kind |-> "return", value |-> Apology]
          /\ Messages(agents, 1, "s1") = <<HumanMessage(Message(d)), HumanMessage(Message(c))>>
          /\ Messages(agents, 1, "s2") = <<>>
          /\ "s2" \in DOMAIN agents[1].memories

\* C27: once a chat_with_agent call on a session has succeeded, every later
\* chat_with_agent call on that session hands the agent a chat_history that
\* contains the earlier call's user message, whatever other calls (on other
\* sessions, or with another llm_provider argument) happened in between.
C27_HistoryPersists ==
    [][\A c \in Calls : StartsNow(c) =>
          \A d \in Calls :
              (/\ frame[d].pc = "done"
               /\ ret[d] = [kind |-> "return", value |-> "output"]
               /\ args[d].session_id = args[c].session_id) =>
                  \E i \in 1..Len(frame'[c].chat_history) :
                      frame'[c].chat_history[i] = HumanMessage(Message(d))]_vars

\* The messages of every session of every agent are left as they were.
MemoriesUnchanged ==
    \A a \in 1..Len(agents'), s \in SessionIds :
        Messages(agents', a, s) = Messages(agents, a, s)

\* C28 as stated: when the agent invocation fails, chat returns the apology
\* string instead of raising, and the messages of every session are what
\* they were before: the failed user message is not recorded.
C28_FailureRecordsNothing ==
    [][\A c \in Calls : FailsNow(c) =>
          /\ ret'[c] = [kind |-> "return", value |-> Apology]
          /\ MemoriesUnchanged]_vars

\* C28 amended: when the agent invocation fails with an exception derived
\* from Exception, chat returns the apology string instead of raising; when
\* it fails with another one (CancelledError, KeyboardInterrupt, SystemExit,
\* GeneratorExit, which except Exception does not catch), the exception
\* leaves chat; in both cases the messages of every session are what they
\* were before.
C28_FailureApologizesUnlessCancelled ==
    [][\A c \in Calls : FailsNow(c) =>
          /\ ret'[c] = IF frame'[c].raised \in {"CancelledError", "KeyboardInterrupt",
                                                "SystemExit", "GeneratorExit"}
                       THEN [kind |-> "raise", error |-> frame'[c].raised]
                       ELSE [kind |-> "return", value |-> Apology]
          /\ MemoriesUnchanged]_vars

\* A chat failed with an apology and another was cancelled, both on a
\* session that holds the message of a third, successful chat, and holds
\* nothing else.
C28_Witness ==
    /\ pc = "chat"
    /\ \E c, d, e \in Calls :
          /\ frame[c].pc = "done" /\ ret[c] = [kind |-> "return", value |-> Apology]
          /\ frame[e].pc = "done" /\ ret[e] = [kind |-> "raise", error |-> "CancelledError"]
          /\ frame[d].pc = "done" /\ ret[d] = [kind |-> "return", value |-> "output"]
          /\ args[c].session_id = args[d].session_id
          /\ args[e].session_id = args[d].session_id
          /\ frame[c].agent = frame[d].agent
          /\ frame[e].agent = frame[d].agent
          /\ frame[c].chat_history = <<HumanMessage(Message(d))>>
          /\ frame[e].chat_history = <<HumanMessage(Message(d))>>
          /\ Messages(agents, frame[c].agent, args[c].session_id) = <<HumanMessage(Message(d))>>

====
